---------------------------- MODULE Spec2Model ----------------------------
(***************************************************************************)
(* Model of the adversarial robustness evaluator of TraeGuard              *)
(* (src/reliability/adversarial_tests.py): the variant generators, the     *)
(* robustness-metric calculator, the per-clause tester and the suite       *)
(* runner.                                                                 *)
(*                                                                         *)
(* Python floats are IEEE-754 binary64 values.  They are modelled exactly: *)
(* a float is a sign, a 53-bit significand and an exponent, and every      *)
(* arithmetic operation rounds its exact result to nearest, ties to even.  *)
(* The significand does not fit TLC's integers, so it is kept as a         *)
(* little-endian sequence of base-2^13 digits.                             *)
(***************************************************************************)
EXTENDS Integers, Sequences, FiniteSets, TLC

\* the sequence f with every element evaluated, once
List(f) == f \o <<>>

(***************************************************************************)
(* The functions of the program and of the libraries it calls are applied  *)
(* through one recursive operator, Apply: F(x) below stands for the call   *)
(* of the function f defined further down under its own name.  An         *)
(* application is then not unfolded where it is written, which keeps the   *)
(* size of the unfolded definitions linear in the size of the module.      *)
(***************************************************************************)
RECURSIVE Apply(_, _)
BCmp(a, b) == Apply("big_cmp", <<a, b>>)
BAdd(a, b) == Apply("big_add", <<a, b>>)
BSub(a, b) == Apply("big_sub", <<a, b>>)
BMul(a, b) == Apply("big_mul", <<a, b>>)
BDivSmall(a, n) == Apply("big_div_small", <<a, n>>)
BShl(a, k) == Apply("big_shl", <<a, k>>)
BShr(a, k) == Apply("big_shr", <<a, k>>)
BBitLen(a) == Apply("big_bit_length", <<a>>)
BTrailingZeros(a) == Apply("big_trailing_zeros", <<a>>)
BDivMod(n, d) == Apply("big_divmod", <<n, d>>)
BSqrt(n) == Apply("big_isqrt", <<n>>)
FExact(sg, M, e) == Apply("float_exact", <<sg, M, e>>)
FCmpMag(a, b) == Apply("float_cmp_abs", <<a, b>>)
FLess(a, b) == Apply("float_lt", <<a, b>>)
FRound(sg, M, e, sticky) == Apply("float_round", <<sg, M, e, sticky>>)
FAdd(a, b) == Apply("float_add", <<a, b>>)
FSub(a, b) == Apply("float_sub", <<a, b>>)
FMul(a, b) == Apply("float_mul", <<a, b>>)
FDiv(a, b) == Apply("float_div", <<a, b>>)
FSqrt(a) == Apply("float_sqrt", <<a>>)
Lower(s) == Apply("str_lower", <<s>>)
Capitalize(s) == Apply("str_capitalize", <<s>>)
Contains(sub, s) == Apply("str_contains", <<sub, s>>)
Replace(s, old, new) == Apply("str_replace", <<s, old, new>>)
ReSearch(pat, s, ic) == Apply("re_search", <<pat, s, ic>>)
ReSub(pat, pre, post, s, ic) == Apply("re_sub", <<pat, pre, post, s, ic>>)
RandomChoice(seq, rng) == Apply("random_choice", <<seq, rng>>)
GenerateParaphrasedVariant(clause, rng) == Apply("generate_paraphrased_variant", <<clause, rng>>)
GenerateNegationVariant(clause, rng) == Apply("generate_negation_variant", <<clause, rng>>)
GenerateAmbiguousVariant(clause, rng) == Apply("generate_ambiguous_variant", <<clause, rng>>)
GenerateEntitySwappedVariant(clause, rng) == Apply("generate_entity_swapped_variant", <<clause, rng>>)
GenerateVariants(clause, num_variants, rng, fails) == Apply("generate_variants", <<clause, num_variants, rng, fails>>)
NpMean(xs) == Apply("np_mean", <<xs>>)
NpDot(v1, v2) == Apply("np_dot", <<v1, v2>>)
NpNorm(v) == Apply("np_linalg_norm", <<v>>)
CosineSimilarity(vec1, vec2) == Apply("cosine_similarity", <<vec1, vec2>>)
CalculateRobustnessMetrics(original, variants) == Apply("calculate_robustness_metrics", <<original, variants>>)
ClassifyClause(cls, clause) == Apply("classify_clause", <<cls, clause>>)
TestClauseRobustness(clause, metadata, rng, cls, fails) == Apply("test_clause_robustness", <<clause, metadata, rng, cls, fails>>)
SuiteResult(batch, results) == Apply("suite_summary", <<batch, results>>)

(***************************************************************************)
(* Natural numbers of arbitrary size: little-endian digit sequences, no    *)
(* leading zero digit, zero is the empty sequence.                         *)
(***************************************************************************)
DigitBits == 13
Radix == 2 ^ DigitBits

RECURSIVE BNorm(_)
BNorm(a) ==
    IF a = <<>> THEN a
    ELSE IF a[Len(a)] = 0 THEN BNorm(SubSeq(a, 1, Len(a) - 1))
    ELSE a

RECURSIVE BFromNat(_)
BFromNat(n) ==
    IF n = 0 THEN <<>> ELSE <<n % Radix>> \o BFromNat(n \div Radix)

BDigit(a, i) == IF i >= 1 /\ i <= Len(a) THEN a[i] ELSE 0

RECURSIVE BCmpFrom(_, _, _)
BCmpFrom(a, b, i) ==
    IF i = 0 THEN 0
    ELSE IF a[i] < b[i] THEN -1
    ELSE IF a[i] > b[i] THEN 1
    ELSE BCmpFrom(a, b, i - 1)

big_cmp(a, b) ==
    IF Len(a) < Len(b) THEN -1
    ELSE IF Len(a) > Len(b) THEN 1
    ELSE BCmpFrom(a, b, Len(a))

RECURSIVE BAddFrom(_, _, _, _)
BAddFrom(a, b, i, c) ==
    IF i > Len(a) /\ i > Len(b)
    THEN IF c = 0 THEN <<>> ELSE <<c>>
    ELSE LET s == BDigit(a, i) + BDigit(b, i) + c
         IN  <<s % Radix>> \o BAddFrom(a, b, i + 1, s \div Radix)

big_add(a, b) == BAddFrom(a, b, 1, 0)

RECURSIVE BSubFrom(_, _, _, _)
BSubFrom(a, b, i, c) ==
    IF i > Len(a) THEN <<>>
    ELSE LET d == BDigit(a, i) - BDigit(b, i) - c
         IN  IF d < 0
             THEN <<d + Radix>> \o BSubFrom(a, b, i + 1, 1)
             ELSE <<d>> \o BSubFrom(a, b, i + 1, 0)

\* a - b, for a >= b
big_sub(a, b) == BNorm(BSubFrom(a, b, 1, 0))

RECURSIVE BConv(_, _, _, _)
BConv(a, b, k, i) ==
    IF i > Len(a) \/ i > k THEN 0
    ELSE a[i] * BDigit(b, k + 1 - i) + BConv(a, b, k, i + 1)

RECURSIVE BMulFrom(_, _, _, _)
BMulFrom(a, b, k, c) ==
    IF k > Len(a) + Len(b) THEN <<>>
    ELSE LET s == BConv(a, b, k, 1) + c
         IN  <<s % Radix>> \o BMulFrom(a, b, k + 1, s \div Radix)

big_mul(a, b) == BNorm(BMulFrom(a, b, 1, 0))

\* quotient and remainder of a by a small natural n
RECURSIVE BDivSmallFrom(_, _, _)
BDivSmallFrom(a, n, i) ==
    IF i > Len(a) THEN [q |-> <<>>, r |-> 0]
    ELSE LET h == BDivSmallFrom(a, n, i + 1)
             cur == h.r * Radix + a[i]
         IN  [q |-> <<cur \div n>> \o h.q, r |-> cur % n]

big_div_small(a, n) ==
    LET h == BDivSmallFrom(a, n, 1) IN [q |-> BNorm(h.q), r |-> h.r]

BZeros(k) == [i \in 1..k |-> 0]

\* a * 2^k
big_shl(a, k) ==
    IF a = <<>> THEN a
    ELSE BZeros(k \div DigitBits) \o BMul(a, <<2 ^ (k % DigitBits)>>)

\* floor(a / 2^k)
big_shr(a, k) ==
    LET q == k \div DigitBits
    IN  IF q >= Len(a) THEN <<>>
        ELSE BDivSmall(SubSeq(a, q + 1, Len(a)), 2 ^ (k % DigitBits)).q

RECURSIVE NatBitLen(_)
NatBitLen(n) == IF n = 0 THEN 0 ELSE 1 + NatBitLen(n \div 2)

big_bit_length(a) ==
    IF a = <<>> THEN 0
    ELSE DigitBits * (Len(a) - 1) + NatBitLen(a[Len(a)])

BIsOdd(a) == a # <<>> /\ a[1] % 2 = 1

RECURSIVE NatTrailingZeros(_)
NatTrailingZeros(n) == IF n % 2 = 1 THEN 0 ELSE 1 + NatTrailingZeros(n \div 2)

\* number of trailing zero bits of a # 0
big_trailing_zeros(a) ==
    LET j == CHOOSE i \in 1..Len(a) : a[i] # 0 /\ \A k \in 1..(i - 1) : a[k] = 0
    IN  DigitBits * (j - 1) + NatTrailingZeros(a[j])

\* the long division of n, from its digit i down, by d, whose top digit is
\* at least Radix / 2: r is the remainder so far and q the quotient so far.
\* The quotient digit is estimated from the two top digits of the remainder
\* and lowered until it fits.  The remainder stays below d, so it is never
\* longer than d; the test keeps it evaluated from step to step.
RECURSIVE BFit(_, _, _)
BFit(d, r, g) == IF BCmp(BMul(d, <<g>>), r) > 0 THEN BFit(d, r, g - 1) ELSE g

RECURSIVE BDivFrom(_, _, _, _, _)
BDivFrom(n, d, i, r, q) ==
    IF i = 0 \/ Len(r) > Len(d) THEN [q |-> BNorm(q), r |-> r]
    ELSE LET r1 == BNorm(<<n[i]>> \o r)
             top == BDigit(r1, Len(d) + 1) * Radix + BDigit(r1, Len(d))
             est == top \div d[Len(d)]
             g == BFit(d, r1, IF est < Radix THEN est ELSE Radix - 1)
             r2 == BSub(r1, BMul(d, <<g>>))
         IN  BDivFrom(n, d, i - 1, r2, <<g>> \o q)

\* quotient and remainder of n by d # 0
big_divmod(n, d) ==
    IF Len(d) = 1 THEN LET h == BDivSmall(n, d[1])
                       IN  [q |-> h.q, r |-> BFromNat(h.r)]
    ELSE LET sh == DigitBits - NatBitLen(d[Len(d)])
             dn == BShl(d, sh)
             nn == BShl(n, sh)
             h == BDivFrom(nn, dn, Len(nn), <<>>, <<>>)
         IN  [q |-> h.q, r |-> BShr(h.r, sh)]

\* floor(sqrt(n)) of a natural number n < Radix^2, bit by bit from 2^k down
RECURSIVE NatSqrtFrom(_, _, _)
NatSqrtFrom(n, res, k) ==
    IF k < 0 THEN res
    ELSE IF (res + 2 ^ k) * (res + 2 ^ k) <= n
    THEN NatSqrtFrom(n, res + 2 ^ k, k - 1)
    ELSE NatSqrtFrom(n, res, k - 1)

NatSqrt(n) == NatSqrtFrom(n, 0, DigitBits)

\* Newton's iteration from x >= floor(sqrt(n)) down to floor(sqrt(n))
RECURSIVE BSqrtFrom(_, _)
BSqrtFrom(n, x) ==
    LET y == BShr(BAdd(x, BDivMod(n, x).q), 1)
    IN  IF BCmp(y, x) >= 0 THEN x ELSE BSqrtFrom(n, y)

\* floor(sqrt(n)): the iteration starts from the root of the two top digits
big_isqrt(n) ==
    IF Len(n) <= 2 THEN BFromNat(NatSqrt(BDigit(n, 2) * Radix + BDigit(n, 1)))
    ELSE LET j == Len(n) - 2
             top == n[Len(n)] * Radix + n[Len(n) - 1]
             t == IF j % 2 = 1 THEN 2 * top ELSE top
             h == (DigitBits * j - (j % 2)) \div 2
         IN  BSqrtFrom(n, BShl(BFromNat(NatSqrt(t) + 2), h))

(***************************************************************************)
(* Python floats.  A float is [sg, m, e] with value (-1)^sg * m * 2^e,     *)
(* where m is odd and has at most MantBits bits; zero is FZero.            *)
(* Infinities, NaN and subnormals do not arise for the magnitudes handled  *)
(* here.                                                                   *)
(***************************************************************************)
MantBits == 53

FZero == [sg |-> 0, m |-> <<>>, e |-> 0]

\* (-1)^sg * M * 2^e for M of at most MantBits bits
float_exact(sg, M, e) ==
    IF M = <<>> THEN FZero
    ELSE LET z == BTrailingZeros(M)
         IN  [sg |-> sg, m |-> BShr(M, z), e |-> e + z]

\* the float nearest to (-1)^sg * (M + f) * 2^e, where 0 <= f < 1 and
\* sticky says whether f > 0 (then M has more than MantBits bits); ties go
\* to the even significand
float_round(sg, M, e, sticky) ==
    LET L == BBitLen(M)
    IN  IF L <= MantBits THEN FExact(sg, M, e)
        ELSE LET k == L - MantBits
                 q == BShr(M, k)
                 c == BCmp(BSub(M, BShl(q, k)), BShl(<<1>>, k - 1))
                 up == c > 0 \/ (c = 0 /\ (sticky \/ BIsOdd(q)))
             IN  FExact(sg, IF up THEN BAdd(q, <<1>>) ELSE q, e + k)

\* the float of the natural number n, and of n / 2^k
FFromNat(n) == FRound(0, BFromNat(n), 0, FALSE)
FDyadic(n, k) == FRound(0, BFromNat(n), 0 - k, FALSE)

FOne == FFromNat(1)

FIsZero(a) == a.m = <<>>

FNeg(a) == IF FIsZero(a) THEN a ELSE [a EXCEPT !.sg = 1 - a.sg]

FAbs(a) == [a EXCEPT !.sg = 0]

\* -1, 0, 1 as the magnitude of a is below, equal to or above that of b
float_cmp_abs(a, b) ==
    IF FIsZero(a) THEN (IF FIsZero(b) THEN 0 ELSE -1)
    ELSE IF FIsZero(b) THEN 1
    ELSE IF BBitLen(a.m) + a.e < BBitLen(b.m) + b.e THEN -1
    ELSE IF BBitLen(a.m) + a.e > BBitLen(b.m) + b.e THEN 1
    ELSE IF a.e >= b.e THEN BCmp(BShl(a.m, a.e - b.e), b.m)
    ELSE BCmp(a.m, BShl(b.m, b.e - a.e))

float_lt(a, b) ==
    IF a.sg = 1 /\ b.sg = 0 THEN ~(FIsZero(a) /\ FIsZero(b))
    ELSE IF a.sg = 0 /\ b.sg = 1 THEN FALSE
    ELSE IF a.sg = 0 THEN FCmpMag(a, b) < 0
    ELSE FCmpMag(a, b) > 0

FLeq(a, b) == ~FLess(b, a)

float_add(a, b) ==
    IF FIsZero(a) THEN b
    ELSE IF FIsZero(b) THEN a
    ELSE LET e == IF a.e < b.e THEN a.e ELSE b.e
             A == BShl(a.m, a.e - e)
             B == BShl(b.m, b.e - e)
             c == BCmp(A, B)
         IN  IF a.sg = b.sg THEN FRound(a.sg, BAdd(A, B), e, FALSE)
             ELSE IF c = 0 THEN FZero
             ELSE IF c > 0 THEN FRound(a.sg, BSub(A, B), e, FALSE)
             ELSE FRound(b.sg, BSub(B, A), e, FALSE)

float_sub(a, b) == FAdd(a, FNeg(b))

float_mul(a, b) ==
    IF FIsZero(a) \/ FIsZero(b) THEN FZero
    ELSE FRound((a.sg + b.sg) % 2, BMul(a.m, b.m), a.e + b.e, FALSE)

\* guard bits kept by a division or a square root before rounding
GuardBits == 3

\* a / b for b # 0: the quotient of the significands is taken to at least
\* MantBits + GuardBits - 1 bits
float_div(a, b) ==
    IF FIsZero(a) THEN FZero
    ELSE LET k == MantBits + GuardBits + BBitLen(b.m)
             d == BDivMod(BShl(a.m, k), b.m)
         IN  FRound((a.sg + b.sg) % 2, d.q, a.e - b.e - k, d.r # <<>>)

\* sqrt(a) for a >= 0: the root of the significand, scaled by an even power
\* of two, is taken to at least MantBits + GuardBits bits
float_sqrt(a) ==
    IF FIsZero(a) THEN FZero
    ELSE LET k == 2 * (MantBits + GuardBits) + (a.e % 2)
             M == BShl(a.m, k)
             S == BSqrt(M)
         IN  FRound(0, S, (a.e - k) \div 2, BMul(S, S) # M)

(***************************************************************************)
(* Text.  A Python str is a sequence of one-character strings.             *)
(***************************************************************************)
UpperSeq == <<"A","B","C","D","E","F","G","H","I","J","K","L","M","N","O","P","Q","R","S","T","U","V","W","X","Y","Z">>
LowerSeq == <<"a","b","c","d","e","f","g","h","i","j","k","l","m","n","o","p","q","r","s","t","u","v","w","x","y","z">>
DigitSeq == <<"0","1","2","3","4","5","6","7","8","9">>

SeqRange(s) == {s[i] : i \in 1..Len(s)}

UpperChars == SeqRange(UpperSeq)
LowerChars == SeqRange(LowerSeq)
\* \d, \w and \s of the re module, over ASCII
DigitChars == SeqRange(DigitSeq)
WordChars == UpperChars \cup LowerChars \cup DigitChars \cup {"_"}
SpaceChars == {" ", "\t", "\n"}

ToLower(c) ==
    IF c \in UpperChars
    THEN LowerSeq[CHOOSE i \in 1..Len(UpperSeq) : UpperSeq[i] = c]
    ELSE c

ToUpper(c) ==
    IF c \in LowerChars
    THEN UpperSeq[CHOOSE i \in 1..Len(LowerSeq) : LowerSeq[i] = c]
    ELSE c

\* str.lower()
str_lower(s) == List([i \in 1..Len(s) |-> ToLower(s[i])])

\* str.capitalize(): first character upper-cased, the rest lower-cased
str_capitalize(s) ==
    List([i \in 1..Len(s) |-> IF i = 1 THEN ToUpper(s[i]) ELSE ToLower(s[i])])

SetMin(S) == CHOOSE x \in S : \A y \in S : x <= y

\* whether sub occurs in s at index i
OccursAt(sub, s, i) ==
    /\ i >= 1
    /\ i + Len(sub) - 1 <= Len(s)
    /\ \A j \in 1..Len(sub) : s[i + j - 1] = sub[j]

\* sub in s
str_contains(sub, s) == \E i \in 1..(Len(s) - Len(sub) + 1) : OccursAt(sub, s, i)

\* s.replace(old, new) from index pos on: the occurrences of old are taken
\* left to right, without overlap
RECURSIVE ReplaceFrom(_, _, _, _)
ReplaceFrom(s, old, new, pos) ==
    LET hits == {i \in pos..(Len(s) - Len(old) + 1) : OccursAt(old, s, i)}
    IN  IF hits = {} THEN SubSeq(s, pos, Len(s))
        ELSE LET i == SetMin(hits)
             IN  SubSeq(s, pos, i - 1) \o new
                     \o ReplaceFrom(s, old, new, i + Len(old))

str_replace(s, old, new) == ReplaceFrom(s, old, new, 1)

(***************************************************************************)
(* The regular expressions of the generators.  A pattern is a sequence of  *)
(* elements: a word boundary \b, a literal, an optional literal (x?), or a *)
(* greedy run of one or more characters of a class (\d+, \s+, \w+), which  *)
(* may be the pattern's group.  In every pattern of the source a run is    *)
(* followed by an element that cannot start with a character of the run's  *)
(* class, so the greedy run is the only candidate: no backtracking into a  *)
(* run can produce a match.                                                *)
(***************************************************************************)
ReB == [t |-> "b"]
ReLit(s) == [t |-> "lit", s |-> s]
ReOpt(s) == [t |-> "opt", s |-> s]
ReRun(class) == [t |-> "run", class |-> class, group |-> FALSE]
ReGroup(class) == [t |-> "run", class |-> class, group |-> TRUE]

IsWordAt(s, i) == i >= 1 /\ i <= Len(s) /\ s[i] \in WordChars

\* \b before index i (i = Len(s) + 1: at the end)
BoundaryAt(s, i) == IsWordAt(s, i - 1) # IsWordAt(s, i)

LitAt(lit, s, i, ic) ==
    IF ic THEN OccursAt(Lower(lit), Lower(s), i) ELSE OccursAt(lit, s, i)

\* the index after the longest run of class characters starting at i
RunEnd(s, i, class) ==
    SetMin({j \in i..(Len(s) + 1) : j = Len(s) + 1 \/ s[j] \notin class})

ReFail == [ok |-> FALSE, end |-> 0, g |-> <<>>]

\* the match of the elements k.. of pat at index i of s (ic: re.IGNORECASE)
RECURSIVE ReMatchFrom(_, _, _, _, _, _)
ReMatchFrom(pat, k, s, i, g, ic) ==
    IF k > Len(pat) THEN [ok |-> TRUE, end |-> i, g |-> g]
    ELSE LET el == pat[k]
         IN  CASE el.t = "b" ->
                    IF BoundaryAt(s, i)
                    THEN ReMatchFrom(pat, k + 1, s, i, g, ic)
                    ELSE ReFail
               [] el.t = "lit" ->
                    IF LitAt(el.s, s, i, ic)
                    THEN ReMatchFrom(pat, k + 1, s, i + Len(el.s), g, ic)
                    ELSE ReFail
               [] el.t = "opt" ->
                    LET with == IF LitAt(el.s, s, i, ic)
                                THEN ReMatchFrom(pat, k + 1, s, i + Len(el.s), g, ic)
                                ELSE ReFail
                    IN  IF with.ok THEN with
                        ELSE ReMatchFrom(pat, k + 1, s, i, g, ic)
               [] el.t = "run" ->
                    LET j == RunEnd(s, i, el.class)
                    IN  IF j > i
                        THEN ReMatchFrom(pat, k + 1, s, j,
                                 IF el.group THEN SubSeq(s, i, j - 1) ELSE g, ic)
                        ELSE ReFail

ReMatchAt(pat, s, i, ic) == ReMatchFrom(pat, 1, s, i, <<>>, ic)

\* re.search(pat, s)
re_search(pat, s, ic) == \E i \in 1..Len(s) : ReMatchAt(pat, s, i, ic).ok

\* re.sub(pat, repl, s) from index pos on; the replacement template is
\* pre, then the group (\1) when the pattern has one, then post
RECURSIVE ReSubFrom(_, _, _, _, _, _)
ReSubFrom(pat, pre, post, s, pos, ic) ==
    LET hits == {i \in pos..Len(s) : ReMatchAt(pat, s, i, ic).ok}
    IN  IF hits = {} THEN SubSeq(s, pos, Len(s))
        ELSE LET i == SetMin(hits)
                 m == ReMatchAt(pat, s, i, ic)
             IN  SubSeq(s, pos, i - 1) \o pre \o m.g \o post
                     \o ReSubFrom(pat, pre, post, s, m.end, ic)

re_sub(pat, pre, post, s, ic) == ReSubFrom(pat, pre, post, s, 1, ic)

\* \bword\b
ReWord(w) == <<ReB, ReLit(w), ReB>>

(***************************************************************************)
(* The random module.  AdversarialTester.__init__ seeds the process-wide   *)
(* generator (random.seed); random.choice draws from it.  The state of the *)
(* generator is the seed and the number of 32-bit words drawn since it was *)
(* seeded.  RandWords(seed) lists the top three bits of the successive     *)
(* words of CPython's Mersenne Twister after random.seed(seed).            *)
(***************************************************************************)
DefaultSeed == 42
OtherSeed == 7

RandWords(seed) ==
    IF seed = DefaultSeed
    THEN <<5, 0, 0, 5, 2, 1, 1, 1, 5, 0, 5, 5, 7, 4, 0, 4,
           3, 0, 0, 0, 1, 1, 4, 4, 0, 4, 1, 5, 5, 5, 4, 3,
           1, 3, 4, 2, 6, 6, 0, 6, 6, 1, 5, 3, 2, 2, 1, 1,
           7, 6, 2, 0, 0, 3, 0, 2, 6, 2, 4, 2, 6, 0, 5, 3>>
    ELSE <<2, 7, 1, 3, 5, 0, 0, 6, 4, 0, 2, 4, 0, 7, 4, 1,
           0, 0, 3, 3, 0, 1, 0, 4, 3, 0, 6, 4, 0, 7, 1, 5,
           5, 4, 7, 0, 4, 4, 3, 0, 7, 1, 0, 4, 6, 1, 2, 3,
           1, 4, 0, 4, 2, 4, 6, 5, 1, 0, 4, 4, 5, 1, 2, 0>>

\* random.seed(seed)
RandomSeed(seed) == [seed |-> seed, pos |-> 0]

\* getrandbits(k) for k <= 3: the top k bits of the next word
GetRandBits(rng, k) == RandWords(rng.seed)[rng.pos + 1] \div (2 ^ (3 - k))

\* _randbelow(n): draws of n.bit_length() bits until one is below n
RECURSIVE RandBelow(_, _)
RandBelow(rng, n) ==
    LET r == GetRandBits(rng, NatBitLen(n))
        next == [rng EXCEPT !.pos = rng.pos + 1]
    IN  IF r >= n THEN RandBelow(next, n) ELSE [val |-> r, rng |-> next]

\* random.choice(seq)
random_choice(seq, rng) ==
    LET b == RandBelow(rng, Len(seq)) IN [val |-> seq[b.val + 1], rng |-> b.rng]

(***************************************************************************)
(* The variant generators                                                  *)
(***************************************************************************)
\* self.paraphrase_templates, in insertion order
ParaphraseTemplates ==
    << [key |-> <<"c","o","l","l","e","c","t">>, options |-> <<<<"g","a","t","h","e","r">>, <<"o","b","t","a","i","n">>, <<"a","c","q","u","i","r","e">>, <<"r","e","t","r","i","e","v","e">>>>],
       [key |-> <<"u","s","e">>, options |-> <<<<"u","t","i","l","i","z","e">>, <<"e","m","p","l","o","y">>, <<"a","p","p","l","y">>, <<"l","e","v","e","r","a","g","e">>>>],
       [key |-> <<"s","h","a","r","e">>, options |-> <<<<"d","i","s","c","l","o","s","e">>, <<"p","r","o","v","i","d","e">>, <<"t","r","a","n","s","m","i","t">>, <<"d","i","s","t","r","i","b","u","t","e">>>>],
       [key |-> <<"s","t","o","r","e">>, options |-> <<<<"r","e","t","a","i","n">>, <<"k","e","e","p">>, <<"s","a","v","e">>, <<"m","a","i","n","t","a","i","n">>>>],
       [key |-> <<"p","r","o","c","e","s","s">>, options |-> <<<<"h","a","n","d","l","e">>, <<"m","a","n","a","g","e">>, <<"a","n","a","l","y","z","e">>, <<"e","v","a","l","u","a","t","e">>>>],
       [key |-> <<"p","r","o","t","e","c","t">>, options |-> <<<<"s","a","f","e","g","u","a","r","d">>, <<"s","e","c","u","r","e">>, <<"d","e","f","e","n","d">>, <<"s","h","i","e","l","d">>>> ] >>

\* self.ambiguity_words, in insertion order
AmbiguityWords ==
    << [key |-> <<"s","p","e","c","i","f","i","c">>, options |-> <<<<"c","e","r","t","a","i","n">>, <<"p","a","r","t","i","c","u","l","a","r">>, <<"s","p","e","c","i","f","i","c">>>>],
       [key |-> <<"e","x","a","c","t","l","y">>, options |-> <<<<"a","p","p","r","o","x","i","m","a","t","e","l","y">>, <<"r","o","u","g","h","l","y">>, <<"a","b","o","u","t">>>>],
       [key |-> <<"i","m","m","e","d","i","a","t","e","l","y">>, options |-> <<<<"p","r","o","m","p","t","l","y">>, <<"s","o","o","n">>, <<"i","n"," ","a"," ","t","i","m","e","l","y"," ","m","a","n","n","e","r">>>>],
       [key |-> <<"a","l","w","a","y","s">>, options |-> <<<<"u","s","u","a","l","l","y">>, <<"g","e","n","e","r","a","l","l","y">>, <<"t","y","p","i","c","a","l","l","y">>>>],
       [key |-> <<"a","l","l">>, options |-> <<<<"m","o","s","t">>, <<"m","a","n","y">>, <<"t","h","e"," ","m","a","j","o","r","i","t","y"," ","o","f">>>>],
       [key |-> <<"r","e","q","u","i","r","e","d">>, options |-> <<<<"r","e","c","o","m","m","e","n","d","e","d">>, <<"s","u","g","g","e","s","t","e","d">>, <<"a","d","v","i","s","e","d">>>> ] >>

\* self.negation_words, in insertion order
NegationWords ==
    << [key |-> <<"w","i","l","l">>, neg |-> <<"w","i","l","l"," ","n","o","t">>],
       [key |-> <<"m","a","y">>, neg |-> <<"m","a","y"," ","n","o","t">>],
       [key |-> <<"c","a","n">>, neg |-> <<"c","a","n","n","o","t">>],
       [key |-> <<"d","o">>, neg |-> <<"d","o"," ","n","o","t">>],
       [key |-> <<"d","o","e","s">>, neg |-> <<"d","o","e","s"," ","n","o","t">>],
       [key |-> <<"c","o","l","l","e","c","t">>, neg |-> <<"d","o"," ","n","o","t"," ","c","o","l","l","e","c","t">>],
       [key |-> <<"u","s","e">>, neg |-> <<"d","o"," ","n","o","t"," ","u","s","e">>],
       [key |-> <<"s","h","a","r","e">>, neg |-> <<"d","o"," ","n","o","t"," ","s","h","a","r","e">>],
       [key |-> <<"s","t","o","r","e">>, neg |-> <<"d","o"," ","n","o","t"," ","s","t","o","r","e">>] >>

\* the loop over the paraphrase templates, from entry k on
RECURSIVE ParaphraseFrom(_, _, _)
ParaphraseFrom(text, rng, k) ==
    IF k > Len(ParaphraseTemplates) THEN [text |-> text, rng |-> rng]
    ELSE LET e == ParaphraseTemplates[k]
         IN  IF Contains(e.key, text)
             THEN LET c == RandomChoice(e.options, rng)
                  IN  ParaphraseFrom(Replace(text, e.key, c.val), c.rng, k + 1)
             ELSE ParaphraseFrom(text, rng, k + 1)

WeVerb == <<ReLit(<<"w","e"," ">>), ReGroup(WordChars)>>
YourNoun == <<ReLit(<<"y","o","u","r"," ">>), ReGroup(WordChars)>>

generate_paraphrased_variant(clause, rng) ==
    LET p == ParaphraseFrom(Lower(clause), rng, 1)
        t1 == ReSub(WeVerb, <<"o","u","r"," ","c","o","m","p","a","n","y"," ">>, <<"s">>, p.text, FALSE)
        t2 == ReSub(YourNoun, <<"t","h","e"," ","u","s","e","r","\\","'","s"," ">>, <<>>, t1, FALSE)
    IN  [variant |-> [text |-> Capitalize(t2), variant_type |-> "paraphrased",
                      description |-> "Clause with privacy verbs replaced by synonyms and minor syntactic changes"],
         rng |-> p.rng]

\* a loop over the negation words that negates every word that occurs
RECURSIVE NegateEvery(_, _)
NegateEvery(text, k) ==
    IF k > Len(NegationWords) THEN text
    ELSE LET e == NegationWords[k]
         IN  IF ReSearch(ReWord(e.key), text, TRUE)
             THEN NegateEvery(ReSub(ReWord(e.key), e.neg, <<>>, text, TRUE), k + 1)
             ELSE NegateEvery(text, k + 1)

\* the loop over the negation words, from entry k on: the first word that
\* occurs is negated and the loop ends
RECURSIVE NegateFrom(_, _)
NegateFrom(text, k) ==
    IF k > Len(NegationWords) THEN text
    ELSE LET e == NegationWords[k]
         IN  IF ReSearch(ReWord(e.key), text, TRUE)
             THEN ReSub(ReWord(e.key), e.neg, <<>>, text, TRUE)
             ELSE NegateFrom(text, k + 1)

NoLonger == <<ReB, ReLit(<<"n","o">>), ReRun(SpaceChars), ReLit(<<"l","o","n","g","e","r">>), ReB>>

\* a negation that looks for "will" anywhere in the text, inside longer
\* words too
NegationBySubstring(clause, rng) ==
    LET t1 == NegateFrom(clause, 1)
        t2 == IF Contains(<<"w","i","l","l">>, Lower(t1)) /\ ~Contains(<<"w","i","l","l"," ","n","o","t">>, Lower(t1))
              THEN Replace(Lower(t1), <<"w","i","l","l">>, <<"w","i","l","l"," ","n","o","t">>)
              ELSE t1
    IN  [variant |-> [text |-> t2, variant_type |-> "negation_flipped",
                      description |-> "Clause with negations added to key action verbs"],
         rng |-> rng]

generate_negation_variant(clause, rng) ==
    LET t1 == NegateFrom(clause, 1)
        t2 == IF Contains(<<"w","i","l","l">>, Lower(t1)) /\ ~Contains(<<"w","i","l","l"," ","n","o","t">>, Lower(t1))
              THEN ReSub(ReWord(<<"w","i","l","l">>), <<"w","i","l","l"," ","n","o","t">>, <<>>, t1, TRUE)
              ELSE IF ReSearch(NoLonger, t1, TRUE)
              THEN ReSub(NoLonger, <<>>, <<>>, t1, TRUE)
              ELSE t1
    IN  [variant |-> [text |-> t2, variant_type |-> "negation_flipped",
                      description |-> "Clause with negations added to key action verbs"],
         rng |-> rng]

\* the loop over the ambiguity words, from entry k on
RECURSIVE AmbiguateFrom(_, _, _)
AmbiguateFrom(text, rng, k) ==
    IF k > Len(AmbiguityWords) THEN [text |-> text, rng |-> rng]
    ELSE LET e == AmbiguityWords[k]
         IN  IF Contains(e.key, Lower(text))
             THEN LET c == RandomChoice(e.options, rng)
                  IN  AmbiguateFrom(ReSub(ReWord(e.key), c.val, <<>>, text, TRUE),
                                    c.rng, k + 1)
             ELSE AmbiguateFrom(text, rng, k + 1)

\* \b\d+\s+units\b: the plural only
DurationPluralOnly(unit) ==
    <<ReB, ReRun(DigitChars), ReRun(SpaceChars), ReLit(unit \o <<"s">>), ReB>>

\* \b\d+\s+units?\b
Duration(unit) ==
    <<ReB, ReRun(DigitChars), ReRun(SpaceChars), ReLit(unit), ReOpt(<<"s">>), ReB>>

Percentage == <<ReB, ReRun(DigitChars), ReLit(<<"%">>), ReB>>

generate_ambiguous_variant(clause, rng) ==
    LET a == AmbiguateFrom(clause, rng, 1)
        t1 == ReSub(Duration(<<"d","a","y">>), <<"a"," ","r","e","a","s","o","n","a","b","l","e"," ","p","e","r","i","o","d">>, <<>>, a.text, TRUE)
        t2 == ReSub(Duration(<<"w","e","e","k">>), <<"s","o","m","e"," ","t","i","m","e">>, <<>>, t1, TRUE)
        t3 == ReSub(Duration(<<"m","o","n","t","h">>), <<"a","n"," ","e","x","t","e","n","d","e","d"," ","p","e","r","i","o","d">>, <<>>, t2, TRUE)
        t4 == ReSub(Percentage, <<"a"," ","s","i","g","n","i","f","i","c","a","n","t"," ","p","e","r","c","e","n","t","a","g","e">>, <<>>, t3, FALSE)
    IN  [variant |-> [text |-> t4, variant_type |-> "ambiguous",
                      description |-> "Clause with specific terms replaced by vague language"],
         rng |-> a.rng]

\* company_replacements, in insertion order
CompanyReplacements ==
    << [key |-> <<"G","o","o","g","l","e">>, options |-> <<<<"M","i","c","r","o","s","o","f","t">>, <<"A","p","p","l","e">>, <<"A","m","a","z","o","n">>, <<"M","e","t","a">>>>],
       [key |-> <<"F","a","c","e","b","o","o","k">>, options |-> <<<<"T","w","i","t","t","e","r">>, <<"L","i","n","k","e","d","I","n">>, <<"I","n","s","t","a","g","r","a","m">>, <<"T","i","k","T","o","k">>>>],
       [key |-> <<"A","m","a","z","o","n">>, options |-> <<<<"e","B","a","y">>, <<"W","a","l","m","a","r","t">>, <<"T","a","r","g","e","t">>, <<"B","e","s","t"," ","B","u","y">>>>],
       [key |-> <<"A","p","p","l","e">>, options |-> <<<<"S","a","m","s","u","n","g">>, <<"G","o","o","g","l","e">>, <<"M","i","c","r","o","s","o","f","t">>, <<"S","o","n","y">>>>],
       [key |-> <<"M","i","c","r","o","s","o","f","t">>, options |-> <<<<"G","o","o","g","l","e">>, <<"A","p","p","l","e">>, <<"I","B","M">>, <<"O","r","a","c","l","e">>>> ] >>

\* duration_swaps, in insertion order
DurationSwaps ==
    << [key |-> <<"3","0"," ","d","a","y","s">>, to |-> <<"6","0"," ","d","a","y","s">>],
       [key |-> <<"6","0"," ","d","a","y","s">>, to |-> <<"9","0"," ","d","a","y","s">>],
       [key |-> <<"9","0"," ","d","a","y","s">>, to |-> <<"1","2","0"," ","d","a","y","s">>],
       [key |-> <<"1"," ","y","e","a","r">>, to |-> <<"2"," ","y","e","a","r","s">>],
       [key |-> <<"2"," ","y","e","a","r","s">>, to |-> <<"3"," ","y","e","a","r","s">>] >>

\* the loop over the company names, from entry k on
RECURSIVE SwapCompaniesFrom(_, _, _)
SwapCompaniesFrom(text, rng, k) ==
    IF k > Len(CompanyReplacements) THEN [text |-> text, rng |-> rng]
    ELSE LET e == CompanyReplacements[k]
         IN  IF Contains(e.key, text)
             THEN LET c == RandomChoice(e.options, rng)
                  IN  SwapCompaniesFrom(Replace(text, e.key, c.val), c.rng, k + 1)
             ELSE SwapCompaniesFrom(text, rng, k + 1)

\* a loop over the duration swaps that applies every entry that occurs
RECURSIVE SwapEveryDuration(_, _)
SwapEveryDuration(text, k) ==
    IF k > Len(DurationSwaps) THEN text
    ELSE LET e == DurationSwaps[k]
         IN  IF Contains(e.key, text)
             THEN SwapEveryDuration(Replace(text, e.key, e.to), k + 1)
             ELSE SwapEveryDuration(text, k + 1)

\* the loop over the duration swaps, from entry k on: the first entry that
\* occurs is applied and the loop ends
RECURSIVE SwapDurationFrom(_, _)
SwapDurationFrom(text, k) ==
    IF k > Len(DurationSwaps) THEN text
    ELSE LET e == DurationSwaps[k]
         IN  IF Contains(e.key, text) THEN Replace(text, e.key, e.to)
             ELSE SwapDurationFrom(text, k + 1)

generate_entity_swapped_variant(clause, rng) ==
    LET c == SwapCompaniesFrom(clause, rng, 1)
        t1 == ReSub(ReWord(<<"C","o","m","p","a","n","y">>), <<"O","r","g","a","n","i","z","a","t","i","o","n">>, <<>>, c.text, FALSE)
        t2 == ReSub(ReWord(<<"C","o","r","p","o","r","a","t","i","o","n">>), <<"E","n","t","i","t","y">>, <<>>, t1, FALSE)
        t3 == ReSub(ReWord(<<"I","n","c">>), <<"L","L","C">>, <<>>, t2, FALSE)
        t4 == ReSub(ReWord(<<"2","0","2","3">>), <<"2","0","2","4">>, <<>>, t3, FALSE)
        t5 == ReSub(ReWord(<<"2","0","2","4">>), <<"2","0","2","5">>, <<>>, t4, FALSE)
    IN  [variant |-> [text |-> SwapDurationFrom(t5, 1), variant_type |-> "entity_swapped",
                      description |-> "Clause with company names, dates, and durations swapped"],
         rng |-> c.rng]

NumGenerators == 4

\* variant_generators[i](clause), i counted from 1
Generator(i, clause, rng) ==
    CASE i = 1 -> GenerateParaphrasedVariant(clause, rng)
      [] i = 2 -> GenerateNegationVariant(clause, rng)
      [] i = 3 -> GenerateAmbiguousVariant(clause, rng)
      [] i = 4 -> GenerateEntitySwappedVariant(clause, rng)

\* a loop of generate_variants that ends at the first generator that raises
RECURSIVE GenerateUntilFailure(_, _, _, _, _)
GenerateUntilFailure(clause, n, rng, fails, i) ==
    IF i > n \/ i \in fails THEN [variants |-> <<>>, rng |-> rng]
    ELSE LET g == Generator(i, clause, rng)
             rest == GenerateUntilFailure(clause, n, g.rng, fails, i + 1)
         IN  [variants |-> <<g.variant>> \o rest.variants, rng |-> rest.rng]

\* the loop of generate_variants from generator i on.  A generator in fails
\* raises (on its first use of the clause, before any random draw); the
\* exception is caught and the loop goes on.
RECURSIVE GenerateFrom(_, _, _, _, _)
GenerateFrom(clause, n, rng, fails, i) ==
    IF i > n THEN [variants |-> <<>>, rng |-> rng]
    ELSE IF i \in fails THEN GenerateFrom(clause, n, rng, fails, i + 1)
    ELSE LET g == Generator(i, clause, rng)
             rest == GenerateFrom(clause, n, g.rng, fails, i + 1)
         IN  [variants |-> <<g.variant>> \o rest.variants, rng |-> rest.rng]

\* generate_variants(clause, num_variants)
generate_variants(clause, num_variants, rng, fails) ==
    GenerateFrom(clause,
                 IF num_variants < NumGenerators THEN num_variants ELSE NumGenerators,
                 rng, fails, 1)

(***************************************************************************)
(* The classifier (core_logic.classify_sentences, the explainer pipeline   *)
(* and models.id2label) lies outside the source tree.  It is an            *)
(* environment: classify(text) raises or returns a ClassificationResult,   *)
(* and answers the same for the same text.  A classifier is given by its   *)
(* answers on the texts it knows and its answer on every other text.       *)
(***************************************************************************)
\* list(id2label.values())
Id2LabelValues == <<"data_collection", "data_sharing", "data_retention">>

\* a ClassificationResult without its text; scores and probabilities are
\* given in eighths
Classified(label, rating, score8, conf8, dist8) ==
    [top1_label |-> label, rating |-> rating,
     case_score |-> FDyadic(score8, 3), confidence |-> FDyadic(conf8, 3),
     top3 |-> label,
     probability_distribution |-> List([i \in 1..Len(dist8) |-> FDyadic(dist8[i], 3)])]

WithText(r, text) ==
    [text |-> text, top1_label |-> r.top1_label, rating |-> r.rating,
     case_score |-> r.case_score, confidence |-> r.confidence, top3 |-> r.top3,
     probability_distribution |-> r.probability_distribution]

(***************************************************************************)
(* calculate_robustness_metrics                                            *)
(***************************************************************************)
\* max(a, b) and min(a, b) of Python: the first argument unless the second
\* is strictly greater (smaller)
FMax(a, b) == IF FLess(a, b) THEN b ELSE a
FMin(a, b) == IF FLess(b, a) THEN b ELSE a

RECURSIVE FSumFrom(_, _, _)
FSumFrom(xs, i, acc) ==
    IF i > Len(xs) THEN acc ELSE FSumFrom(xs, i + 1, FAdd(acc, xs[i]))

\* np.mean of a non-empty list: the sum, left to right, over the count
np_mean(xs) == FDiv(FSumFrom(xs, 1, FZero), FFromNat(Len(xs)))

\* np.dot of two vectors of equal length
np_dot(v1, v2) ==
    FSumFrom(List([i \in 1..Len(v1) |-> FMul(v1[i], v2[i])]), 1, FZero)

\* np.linalg.norm
np_linalg_norm(v) == FSqrt(NpDot(v, v))

cosine_similarity(vec1, vec2) ==
    LET dot_product == NpDot(vec1, vec2)
        norm1 == NpNorm(vec1)
        norm2 == NpNorm(vec2)
    IN  IF FIsZero(norm1) \/ FIsZero(norm2) THEN FZero
        ELSE FDiv(dot_product, FMul(norm1, norm2))

\* the drift relative to the original score, without the floor of 1.0
RiskDriftUnfloored(original, variant) ==
    FDiv(FAbs(FSub(variant.case_score, original.case_score)),
         FAbs(original.case_score))

RiskDrift(original, variant) ==
    FDiv(FAbs(FSub(variant.case_score, original.case_score)),
         FMax(FAbs(original.case_score), FOne))

\* a label stability that is 1.0 when the original label cannot be looked up
LabelStabilityFailOpen(original, variant) ==
    IF variant.top1_label = original.top1_label THEN FOne
    ELSE LET hits == {i \in 1..Len(Id2LabelValues) :
                         Id2LabelValues[i] = original.top1_label}
         IN  IF hits = {} THEN FOne
             ELSE LET idx == CHOOSE i \in hits : \A j \in hits : i <= j
                  IN  IF idx > Len(variant.probability_distribution)
                      THEN FOne
                      ELSE variant.probability_distribution[idx]

LabelStability(original, variant) ==
    IF variant.top1_label = original.top1_label THEN FOne
    ELSE IF original.top1_label \notin SeqRange(Id2LabelValues)
    THEN FZero \* ValueError
    ELSE LET idx == CHOOSE i \in 1..Len(Id2LabelValues) :
                        /\ Id2LabelValues[i] = original.top1_label
                        /\ \A j \in 1..(i - 1) : Id2LabelValues[j] # original.top1_label
         IN  IF idx > Len(variant.probability_distribution)
             THEN FZero \* IndexError
             ELSE variant.probability_distribution[idx]

\* a confidence stability that keeps the sign of the difference
ConfidenceStabilitySigned(original, variant) ==
    FSub(FOne, FSub(variant.confidence, original.confidence))

ConfidenceStability(original, variant) ==
    FSub(FOne, FAbs(FSub(variant.confidence, original.confidence)))

\* an inference that looks for "not" before it looks for "paraphrased"
InferredNegationFirst(text) ==
    LET low == Lower(text)
    IN  IF Contains(<<"n","o","t">>, low) THEN "negation_flipped"
        ELSE IF Contains(<<"p","a","r","a","p","h","r","a","s","e","d">>, low) THEN "paraphrased"
        ELSE IF Contains(<<"c","e","r","t","a","i","n">>, low) \/ Contains(<<"a","p","p","r","o","x","i","m","a","t","e","l","y">>, low)
        THEN "ambiguous"
        ELSE "entity_swapped"

\* the variant_type of a per-variant result, inferred from the text
InferredVariantType(text) ==
    LET low == Lower(text)
    IN  IF Contains(<<"p","a","r","a","p","h","r","a","s","e","d">>, low) THEN "paraphrased"
        ELSE IF Contains(<<"n","o","t">>, low) THEN "negation_flipped"
        ELSE IF Contains(<<"c","e","r","t","a","i","n">>, low) \/ Contains(<<"a","p","p","r","o","x","i","m","a","t","e","l","y">>, low)
        THEN "ambiguous"
        ELSE "entity_swapped"

VariantResult(original, variant) ==
    [text |-> variant.text,
     variant_type |-> InferredVariantType(variant.text),
     top1_label |-> variant.top1_label,
     rating |-> variant.rating,
     case_score |-> variant.case_score,
     confidence |-> variant.confidence,
     risk_drift |-> RiskDrift(original, variant),
     label_stability |-> LabelStability(original, variant),
     confidence_stability |-> ConfidenceStability(original, variant),
     probability_similarity |-> CosineSimilarity(original.probability_distribution,
                                                 variant.probability_distribution)]

\* np.mean(xs) if xs else 0.0
MeanOrZero(xs) == IF xs # <<>> THEN NpMean(xs) ELSE FZero

Field(seq, f) == List([i \in 1..Len(seq) |-> seq[i][f]])

\* calculate_robustness_metrics without the early return for an empty list
\* of variants: every aggregate is then the mean of an empty list, 0.0
MetricsWithoutEarlyReturn(original, variants) ==
    LET variant_results ==
            List([i \in 1..Len(variants) |-> VariantResult(original, variants[i])])
    IN  [risk_drift_score |-> FMin(FOne, MeanOrZero(Field(variant_results, "risk_drift"))),
         label_stability_score |-> MeanOrZero(Field(variant_results, "label_stability")),
         confidence_stability |-> MeanOrZero(Field(variant_results, "confidence_stability")),
         probability_similarity |-> MeanOrZero(Field(variant_results, "probability_similarity")),
         variant_results |-> variant_results]

calculate_robustness_metrics(original, variants) ==
    IF variants = <<>>
    THEN [risk_drift_score |-> FZero,
          label_stability_score |-> FOne,
          confidence_stability |-> FOne,
          probability_similarity |-> FOne,
          variant_results |-> <<>>]
    ELSE LET variant_results ==
                 List([i \in 1..Len(variants) |->
                          VariantResult(original, variants[i])])
         IN  [risk_drift_score |-> FMin(FOne, NpMean(Field(variant_results, "risk_drift"))),
              label_stability_score |-> NpMean(Field(variant_results, "label_stability")),
              confidence_stability |-> NpMean(Field(variant_results, "confidence_stability")),
              probability_similarity |-> NpMean(Field(variant_results, "probability_similarity")),
              variant_results |-> variant_results]

(***************************************************************************)
(* test_clause_robustness                                                  *)
(***************************************************************************)
EmptyDict == <<>>

\* d.get(key, default)
DictGet(d, key, default) == IF key \in DOMAIN d THEN d[key] ELSE default

\* what a call of classify_clause does: it raises, or returns a result
Raises(error) == [ok |-> FALSE, error |-> error]
Returns(result) == [ok |-> TRUE, result |-> result]

\* the answer of the classifier cls for a text: the same for the same text
Answer(cls, text) ==
    IF text \in DOMAIN cls.known THEN cls.known[text] ELSE cls.other

\* self.classify_clause(clause): the exception is logged and raised again
classify_clause(cls, clause) ==
    LET a == Answer(cls, clause)
    IN  IF a.ok THEN Returns(WithText(a.result, clause)) ELSE a

\* a loop over the variants that ends at the first variant whose
\* classification raises
RECURSIVE ClassifyVariantsUntilFailure(_, _, _)
ClassifyVariantsUntilFailure(cls, variants, k) ==
    IF k > Len(variants) THEN <<>>
    ELSE LET c == ClassifyClause(cls, variants[k].text)
         IN  IF c.ok
             THEN <<c.result>> \o ClassifyVariantsUntilFailure(cls, variants, k + 1)
             ELSE <<>>

\* a loop over the variants that collects the results last to first
RECURSIVE ClassifyVariantsBackwards(_, _, _)
ClassifyVariantsBackwards(cls, variants, k) ==
    IF k > Len(variants) THEN <<>>
    ELSE LET c == ClassifyClause(cls, variants[k].text)
         IN  ClassifyVariantsBackwards(cls, variants, k + 1)
                 \o (IF c.ok THEN <<c.result>> ELSE <<>>)

\* the loop that classifies the variants from variant k on: a variant whose
\* classification raises is left out
RECURSIVE ClassifyVariantsFrom(_, _, _)
ClassifyVariantsFrom(cls, variants, k) ==
    IF k > Len(variants) THEN <<>>
    ELSE LET c == ClassifyClause(cls, variants[k].text)
         IN  (IF c.ok THEN <<c.result>> ELSE <<>>)
                 \o ClassifyVariantsFrom(cls, variants, k + 1)

\* the calls of a tester that generates the variants before it classifies
\* the original clause
CallLogGeneratingFirst(clause, original_ok, variants) ==
    <<[op |-> "generate_variants", text |-> clause],
      [op |-> "classify", text |-> clause]>>
        \o (IF original_ok
            THEN [k \in 1..Len(variants) |->
                     [op |-> "classify", text |-> variants[k].text]]
            ELSE <<>>)

\* the calls made on the classifier and the generators, in order
CallLog(clause, original_ok, variants) ==
    <<[op |-> "classify", text |-> clause]>>
        \o (IF original_ok
            THEN <<[op |-> "generate_variants", text |-> clause]>>
                     \o [k \in 1..Len(variants) |->
                            [op |-> "classify", text |-> variants[k].text]]
            ELSE <<>>)

\* test_clause_robustness(clause, metadata) with the random generator in
\* state rng, the classifier answering cls and the generators in fails
\* raising: the exception that propagates or the report, the state the
\* random generator is left in and the calls made
test_clause_robustness(clause, metadata, rng, cls, fails) ==
    LET original == ClassifyClause(cls, clause)
    IN  IF ~original.ok
        THEN [raised |-> TRUE, error |-> original.error, rng |-> rng,
              calls |-> CallLog(clause, FALSE, <<>>)]
        ELSE LET original_result == original.result
                 g == GenerateVariants(clause, NumGenerators, rng, fails)
                 variant_results == ClassifyVariantsFrom(cls, g.variants, 1)
                 robustness_metrics ==
                     CalculateRobustnessMetrics(original_result, variant_results)
             IN  [raised |-> FALSE,
                  report |->
                      [original |->
                           [text |-> original_result.text,
                            top1_label |-> original_result.top1_label,
                            rating |-> original_result.rating,
                            case_score |-> original_result.case_score,
                            confidence |-> original_result.confidence,
                            top3 |-> original_result.top3],
                       robustness_metrics |->
                           [risk_drift_score |-> robustness_metrics.risk_drift_score,
                            label_stability_score |-> robustness_metrics.label_stability_score,
                            confidence_stability |-> robustness_metrics.confidence_stability,
                            probability_similarity |-> robustness_metrics.probability_similarity],
                       variants |-> robustness_metrics.variant_results,
                       metadata |-> metadata],
                  rng |-> g.rng,
                  calls |-> CallLog(clause, TRUE, g.variants)]

(***************************************************************************)
(* run_robustness_suite                                                    *)
(***************************************************************************)
\* a degraded report that leaves the error message out
DegradedReportWithoutError(clause_text, error, metadata) ==
    [original |-> [text |-> clause_text],
     robustness_metrics |-> EmptyDict,
     variants |-> <<>>,
     metadata |-> metadata]

\* the report recorded for a clause whose test raised
DegradedReport(clause_text, error, metadata) ==
    [original |-> [text |-> clause_text, error |-> error],
     robustness_metrics |-> EmptyDict,
     variants |-> <<>>,
     metadata |-> metadata]

\* results.insert(0, report)
PrependReport(results, report) == <<report>> \o results

\* an append that stores the report twice
AppendReportTwice(results, report) == Append(Append(results, report), report)

\* results.append(report)
AppendReport(results, report) == Append(results, report)

\* a loop body without the except clause: the exception leaves the loop
SuiteHandlesNothing(r) == IF r.raised THEN "propagate" ELSE "append"

\* what the loop body does with the outcome r of test_clause_robustness:
\* "append" the report, or "except": log and append the degraded report
SuiteHandles(r) == IF r.raised THEN "except" ELSE "append"

\* the elements of seq, from the i-th on, whose mask entry is TRUE
RECURSIVE SelectMasked(_, _, _)
SelectMasked(seq, mask, i) ==
    IF i > Len(seq) THEN <<>>
    ELSE (IF mask[i] THEN <<seq[i]>> ELSE <<>>) \o SelectMasked(seq, mask, i + 1)

\* [r for r in results if 'robustness_metrics' in r]
WithMetrics(results) ==
    SelectMasked(results,
                 [i \in 1..Len(results) |-> "robustness_metrics" \in DOMAIN results[i]],
                 1)

\* len(results): the degraded reports counted too
CountsEveryReport(results) == Len(results)

\* len([r for r in results if 'error' not in r.get('original', {})])
SuccessfulTests(results) ==
    Len(SelectMasked(results,
            [i \in 1..Len(results) |->
                "error" \notin DOMAIN DictGet(results[i], "original", EmptyDict)],
            1))

\* overall_robustness without the complement
OverallAsDrift(results, avg_risk_drift) ==
    IF results # <<>> THEN avg_risk_drift ELSE FZero

\* overall_robustness, from the list of reports and the average drift
OverallRobustness(results, avg_risk_drift) ==
    IF results # <<>> THEN FSub(FOne, avg_risk_drift) ELSE FZero

\* the aggregate statistics and the value run_robustness_suite returns
suite_summary(batch, results) ==
    LET ms == WithMetrics(results)
        risk_drifts == List([k \in 1..Len(ms) |->
                           DictGet(ms[k].robustness_metrics, "risk_drift_score", FZero)])
        label_stabilities == List([k \in 1..Len(ms) |->
                           DictGet(ms[k].robustness_metrics, "label_stability_score", FZero)])
        avg_risk_drift ==
            IF results # <<>> /\ risk_drifts # <<>> THEN NpMean(risk_drifts) ELSE FZero
        avg_label_stability ==
            IF results # <<>> /\ label_stabilities # <<>>
            THEN NpMean(label_stabilities) ELSE FZero
        overall_robustness == OverallRobustness(results, avg_risk_drift)
    IN  [summary |->
             [total_clauses |-> Len(batch),
              successful_tests |-> SuccessfulTests(results),
              average_risk_drift |-> avg_risk_drift,
              average_label_stability |-> avg_label_stability,
              overall_robustness_score |-> overall_robustness],
         detailed_results |-> results,
         timestamp |-> "now"]

(***************************************************************************)
(* Apply(op, a): the function named op applied to the arguments a          *)
(***************************************************************************)
Apply(op, a) ==
    CASE op = "big_cmp" -> big_cmp(a[1], a[2])
      [] op = "big_add" -> big_add(a[1], a[2])
      [] op = "big_sub" -> big_sub(a[1], a[2])
      [] op = "big_mul" -> big_mul(a[1], a[2])
      [] op = "big_div_small" -> big_div_small(a[1], a[2])
      [] op = "big_shl" -> big_shl(a[1], a[2])
      [] op = "big_shr" -> big_shr(a[1], a[2])
      [] op = "big_bit_length" -> big_bit_length(a[1])
      [] op = "big_trailing_zeros" -> big_trailing_zeros(a[1])
      [] op = "big_divmod" -> big_divmod(a[1], a[2])
      [] op = "big_isqrt" -> big_isqrt(a[1])
      [] op = "float_exact" -> float_exact(a[1], a[2], a[3])
      [] op = "float_cmp_abs" -> float_cmp_abs(a[1], a[2])
      [] op = "float_lt" -> float_lt(a[1], a[2])
      [] op = "float_round" -> float_round(a[1], a[2], a[3], a[4])
      [] op = "float_add" -> float_add(a[1], a[2])
      [] op = "float_sub" -> float_sub(a[1], a[2])
      [] op = "float_mul" -> float_mul(a[1], a[2])
      [] op = "float_div" -> float_div(a[1], a[2])
      [] op = "float_sqrt" -> float_sqrt(a[1])
      [] op = "str_lower" -> str_lower(a[1])
      [] op = "str_capitalize" -> str_capitalize(a[1])
      [] op = "str_contains" -> str_contains(a[1], a[2])
      [] op = "str_replace" -> str_replace(a[1], a[2], a[3])
      [] op = "re_search" -> re_search(a[1], a[2], a[3])
      [] op = "re_sub" -> re_sub(a[1], a[2], a[3], a[4], a[5])
      [] op = "random_choice" -> random_choice(a[1], a[2])
      [] op = "generate_paraphrased_variant" -> generate_paraphrased_variant(a[1], a[2])
      [] op = "generate_negation_variant" -> generate_negation_variant(a[1], a[2])
      [] op = "generate_ambiguous_variant" -> generate_ambiguous_variant(a[1], a[2])
      [] op = "generate_entity_swapped_variant" -> generate_entity_swapped_variant(a[1], a[2])
      [] op = "generate_variants" -> generate_variants(a[1], a[2], a[3], a[4])
      [] op = "np_mean" -> np_mean(a[1])
      [] op = "np_dot" -> np_dot(a[1], a[2])
      [] op = "np_linalg_norm" -> np_linalg_norm(a[1])
      [] op = "cosine_similarity" -> cosine_similarity(a[1], a[2])
      [] op = "calculate_robustness_metrics" -> calculate_robustness_metrics(a[1], a[2])
      [] op = "classify_clause" -> classify_clause(a[1], a[2])
      [] op = "test_clause_robustness" -> test_clause_robustness(a[1], a[2], a[3], a[4], a[5])
      [] op = "suite_summary" -> suite_summary(a[1], a[2])

(***************************************************************************)
(* State.  Three state machines share the module: the suite runner (Spec), *)
(* calls of generate_variants on testers that share the process-wide       *)
(* random generator (GenSpec), and calculate_robustness_metrics applied to *)
(* inputs drawn from a bounded set (MetricsSpec).                          *)
(***************************************************************************)
VARIABLES
    pc,         \* where the run is
    rng,        \* the state of the random module's generator
    classifier, \* the classifier the run meets
    clauses,    \* run_robustness_suite: the batch passed in
    idx,        \* the index of the loop over the batch (from 1)
    results,    \* the local list of reports
    calls,      \* the calls made on the classifier and the generators
    returned,   \* the value run_robustness_suite returned
    testers,    \* GenSpec: the seed of every tester constructed so far
    genLog,     \* GenSpec: the calls of generate_variants, with their results
    mOriginal,  \* MetricsSpec: the arguments of calculate_robustness_metrics
    mVariants,
    mMetrics    \* MetricsSpec: the RobustnessMetrics returned

vars == <<pc, rng, classifier, clauses, idx, results, calls, returned,
          testers, genLog, mOriginal, mVariants, mMetrics>>

suiteVars == <<classifier, clauses, idx, results, calls, returned>>
genVars == <<testers, genLog>>
metricsVars == <<mOriginal, mVariants, mMetrics>>

\* bounds of the model
MaxBatch == 2
MaxTesters == 2
MaxGenCalls == 2
MaxVariants == 2

\* the entries a batch is made of
ShareClause == [text |-> <<"W","e"," ","s","h","a","r","e"," ","d","a","t","a",".">>]
KeptClause == [text |-> <<"D","a","t","a"," ","k","e","p","t",".">>, metadata |-> [clause_id |-> "kept"]]
EmptyClause == [text |-> <<>>, metadata |-> [clause_id |-> "empty"]]
NoTextClause == [metadata |-> [clause_id |-> "no text"]]
Entries == {ShareClause, KeptClause, EmptyClause, NoTextClause}

\* a clause whose paraphrase draws two synonyms
CollectText == <<"W","e"," ","c","o","l","l","e","c","t"," ","a","n","d"," ","u","s","e"," ","y","o","u","r"," ","d","a","t","a",".">>

\* answers of the classifier
ResultA == Classified("data_collection", "high", 6, 6, <<6, 2, 0>>)
ResultB == Classified("data_sharing", "low", 2, 4, <<2, 4, 2>>)
ResultC == Classified("data_retention", "medium", 4, 8, <<0, 0, 8>>)
ResultD == Classified("data_sharing", "medium", 4, 5, <<3, 5, 0>>)
\* a label outside the label set, a score and a confidence above 1
ResultE == Classified("other", "high", 20, 20, <<2, 2, 4>>)
\* distributions over two labels only
ResultF == Classified("data_retention", "medium", 4, 4, <<4, 4>>)
ResultG == Classified("data_collection", "high", 6, 7, <<6, 2>>)
\* a distribution of zeros
ResultZ == Classified("data_sharing", "low", 1, 1, <<0, 0, 0>>)
Failure == Raises("classification failed")

\* the classifiers a run may meet: steady, drifting on rewritten text,
\* failing on one clause, failing on every rewritten text
Steady ==
    [known |-> (ShareClause.text :> Returns(ResultA)) @@ (KeptClause.text :> Returns(ResultA)),
     other |-> Returns(ResultA)]
Drifting ==
    [known |-> (ShareClause.text :> Returns(ResultA)) @@ (KeptClause.text :> Returns(ResultD)),
     other |-> Returns(ResultB)]
FailsOnKept ==
    [known |-> (ShareClause.text :> Returns(ResultA)) @@ (KeptClause.text :> Failure),
     other |-> Returns(ResultB)]
FailsOnVariants ==
    [known |-> (ShareClause.text :> Returns(ResultB)) @@ (KeptClause.text :> Returns(ResultC)),
     other |-> Failure]
Classifiers == {Steady, Drifting, FailsOnKept, FailsOnVariants}
\* a classifier that fails on one rewritten text
FailsOnNegated ==
    [known |-> (<<"W","e"," ","d","o"," ","n","o","t"," ","s","h","a","r","e"," ","d","a","t","a",".">> :> Failure), other |-> Returns(ResultB)]

\* the generators that raise during one call of generate_variants
GenFailSets == {{}, {2}, {1, 2, 3, 4}}

RECURSIVE SeqsUpTo(_, _)
SeqsUpTo(S, n) ==
    IF n = 0 THEN {<<>>}
    ELSE LET shorter == SeqsUpTo(S, n - 1)
         IN  shorter \cup {Append(s, x) : s \in {t \in shorter : Len(t) = n - 1}, x \in S}

\* the state of the random generator before any tester is constructed
Unseeded == RandomSeed(OtherSeed)

NoResult == [summary |-> EmptyDict]

IdleSuite ==
    /\ classifier = Steady
    /\ clauses = <<>>
    /\ idx = 0
    /\ results = <<>>
    /\ calls = <<>>
    /\ returned = NoResult

IdleGen == testers = <<>> /\ genLog = <<>>

IdleMetrics ==
    /\ mOriginal = WithText(ResultA, <<>>)
    /\ mVariants = <<>>
    /\ mMetrics = EmptyDict

(***************************************************************************)
(* Spec: one run of run_robustness_suite                                   *)
(***************************************************************************)
Init ==
    /\ pc = "start"
    /\ rng = Unseeded
    /\ classifier \in Classifiers
    /\ clauses \in SeqsUpTo(Entries, MaxBatch)
    /\ idx = 0
    /\ results = <<>>
    /\ calls = <<>>
    /\ returned = NoResult
    /\ IdleGen
    /\ IdleMetrics

\* a construction that leaves the random generator as it is
ConstructWithoutSeed ==
    /\ pc = "start"
    /\ rng' = rng
    /\ results' = <<>>
    /\ idx' = 1
    /\ pc' = "loop"
    /\ UNCHANGED <<classifier, clauses, calls, returned, genVars, metricsVars>>

\* tester = AdversarialTester(); results = []
Construct ==
    /\ pc = "start"
    /\ rng' = RandomSeed(DefaultSeed)
    /\ results' = <<>>
    /\ idx' = 1
    /\ pc' = "loop"
    /\ UNCHANGED <<classifier, clauses, calls, returned, genVars, metricsVars>>

ClauseText(i) == DictGet(clauses[i], "text", <<>>)
ClauseMetadata(i) == DictGet(clauses[i], "metadata", EmptyDict)

\* an entry without text treated as a failed clause: a degraded report
RecordEmptyAsFailure ==
    /\ pc = "loop"
    /\ idx <= Len(clauses)
    /\ ClauseText(idx) = <<>>
    /\ results' = AppendReport(results,
                      DegradedReport(<<>>, "empty clause", ClauseMetadata(idx)))
    /\ idx' = idx + 1
    /\ UNCHANGED <<pc, rng, classifier, clauses, calls, returned,
                   genVars, metricsVars>>

\* an entry without text: logged and skipped
SkipEmpty ==
    /\ pc = "loop"
    /\ idx <= Len(clauses)
    /\ ClauseText(idx) = <<>>
    /\ idx' = idx + 1
    /\ UNCHANGED <<pc, rng, classifier, clauses, results, calls, returned,
                   genVars, metricsVars>>

\* the calls of one iteration, tagged with the index of the entry
Tagged(log, i) ==
    [k \in 1..Len(log) |-> [op |-> log[k].op, text |-> log[k].text, entry |-> i]]

\* one iteration of the loop on an entry with text
TestClause ==
    /\ pc = "loop"
    /\ idx <= Len(clauses)
    /\ ClauseText(idx) # <<>>
    /\ \E fails \in GenFailSets :
       \E r \in {TestClauseRobustness(ClauseText(idx), ClauseMetadata(idx),
                                      rng, classifier, fails)} :
         LET handled == SuiteHandles(r)
         IN  /\ rng' = r.rng
             /\ calls' = calls \o Tagged(r.calls, idx)
             /\ results' =
                   IF handled = "append" THEN AppendReport(results, r.report)
                   ELSE IF handled = "except"
                   THEN AppendReport(results,
                            DegradedReport(ClauseText(idx), r.error, ClauseMetadata(idx)))
                   ELSE results
             /\ idx' = IF handled \in {"append", "except"} THEN idx + 1 ELSE idx
             /\ pc' = IF handled \in {"append", "except"} THEN pc ELSE "raised"
    /\ UNCHANGED <<classifier, clauses, returned, genVars, metricsVars>>

\* after the loop: the aggregate statistics and the return
Summarize ==
    /\ pc = "loop"
    /\ idx > Len(clauses)
    /\ returned' = SuiteResult(clauses, results)
    /\ pc' = "done"
    /\ UNCHANGED <<rng, classifier, clauses, idx, results, calls, genVars, metricsVars>>

Next == Construct \/ SkipEmpty \/ TestClause \/ Summarize

Spec == Init /\ [][Next]_vars

\* the run is one sequential call: as long as it has neither returned nor
\* raised, it goes on, and its control state <<pc, idx>> moves
Advance ==
    /\ pc \in {"start", "loop"}
    /\ \E p \in {"loop", "done", "raised"}, i \in 0..(Len(clauses) + 1) :
          pc' = p /\ idx' = i

FairSpec == Spec /\ WF_<<pc, idx>>(Advance)

(***************************************************************************)
(* Properties of run_robustness_suite                                      *)
(***************************************************************************)
\* the entry i of the batch has no text, or an empty one
Skipped(i) == ClauseText(i) = <<>>

\* the indices of the entries with text, in input order
TextedEntries ==
    SelectSeq([i \in 1..Len(clauses) |-> i], LAMBDA i : ~Skipped(i))

\* classifying the original text of entry i raises
OriginalFails(i) == ~Answer(classifier, ClauseText(i)).ok

FailedEntries == {i \in 1..Len(clauses) : ~Skipped(i) /\ OriginalFails(i)}

AllHaveText == \A i \in 1..Len(clauses) : ~Skipped(i)

MetricKeys ==
    {"risk_drift_score", "label_stability_score", "confidence_stability",
     "probability_similarity"}

\* a report as test_clause_robustness returns it for the entry i
NormalReportOf(report, i) ==
    /\ DOMAIN report = {"original", "robustness_metrics", "variants", "metadata"}
    /\ "error" \notin DOMAIN report.original
    /\ report.original.text = ClauseText(i)
    /\ DOMAIN report.robustness_metrics = MetricKeys
    /\ report.metadata = ClauseMetadata(i)

\* the degraded report of the entry i
DegradedReportOf(report, i) ==
    /\ DOMAIN report = {"original", "robustness_metrics", "variants", "metadata"}
    /\ DOMAIN report.original = {"text", "error"}
    /\ report.original.text = ClauseText(i)
    /\ report.original.error = Answer(classifier, ClauseText(i)).error
    /\ report.robustness_metrics = EmptyDict
    /\ report.variants = <<>>
    /\ report.metadata = ClauseMetadata(i)

\* the original text of entry i was handed to the classifier
Classifies(i) ==
    \E k \in 1..Len(calls) :
        calls[k] = [op |-> "classify", text |-> ClauseText(i), entry |-> i]

\* the reports without an error under original
ErrorFree(reports) ==
    SelectSeq(reports, LAMBDA r : "error" \notin DOMAIN r.original)

\* C1. Suite isolation: in a batch whose entries all have text, an entry
\* whose original classification raises gets the degraded report at its own
\* index, every other entry is classified and gets a normal report at its
\* index, total_clauses is the batch length and successful_tests the batch
\* length minus the number of failed entries.
C1_SuiteIsolation ==
    (pc = "done" /\ AllHaveText) =>
        /\ Len(returned.detailed_results) = Len(clauses)
        /\ \A i \in 1..Len(clauses) :
              /\ Classifies(i)
              /\ IF OriginalFails(i)
                 THEN DegradedReportOf(returned.detailed_results[i], i)
                 ELSE NormalReportOf(returned.detailed_results[i], i)
        /\ returned.summary.total_clauses = Len(clauses)
        /\ returned.summary.successful_tests =
               Len(clauses) - Cardinality(FailedEntries)

\* a finished run in which the first of two entries failed and the second
\* was tested
C1_Witness ==
    /\ pc = "done"
    /\ AllHaveText
    /\ Len(clauses) = 2
    /\ OriginalFails(1)
    /\ ~OriginalFails(2)
    /\ returned.summary.successful_tests = 1

\* the value returned has every part of the suite result
CompleteResult(result) ==
    /\ DOMAIN result = {"summary", "detailed_results", "timestamp"}
    /\ DOMAIN result.summary =
           {"total_clauses", "successful_tests", "average_risk_drift",
            "average_label_stability", "overall_robustness_score"}

\* C2. For every batch and every pattern of classifier and generator
\* failures, run_robustness_suite never raises, and it comes to return a
\* result with summary (five fields), detailed_results and timestamp.
C2_AlwaysReturnsCompleteResult ==
    /\ [](pc # "raised")
    /\ <>(pc = "done" /\ CompleteResult(returned))

\* a finished run that met a classifier failure on an original text and a
\* generator failure (a report with fewer variants than generators)
C2_Witness ==
    /\ pc = "done"
    /\ CompleteResult(returned)
    /\ FailedEntries # {}
    /\ \E k \in 1..Len(results) :
          /\ "error" \notin DOMAIN results[k].original
          /\ Len(results[k].variants) \in 1..(NumGenerators - 1)

\* C3. total_clauses is the length of the input batch, skipped and failed
\* entries included, and successful_tests is the number of reports in
\* detailed_results without an error key under original.
C3_SummaryCounts ==
    pc = "done" =>
        /\ returned.summary.total_clauses = Len(clauses)
        /\ returned.summary.successful_tests =
               Cardinality({k \in 1..Len(returned.detailed_results) :
                   "error" \notin DOMAIN returned.detailed_results[k].original})

\* a finished run over a failed entry and a tested one
C3_Witness ==
    /\ pc = "done"
    /\ Len(clauses) = 2
    /\ Len(returned.detailed_results) = 2
    /\ returned.summary.successful_tests = 1

\* C4. average_risk_drift and average_label_stability are the means of
\* risk_drift_score and label_stability_score over the reports of the
\* successful clauses only, and 0.0 when no clause succeeded.
C4_MeansOverSuccessfulReports ==
    pc = "done" =>
        LET ok == ErrorFree(returned.detailed_results)
        IN  /\ returned.summary.average_risk_drift =
                   MeanOrZero([k \in 1..Len(ok) |->
                                  ok[k].robustness_metrics.risk_drift_score])
            /\ returned.summary.average_label_stability =
                   MeanOrZero([k \in 1..Len(ok) |->
                                  ok[k].robustness_metrics.label_stability_score])

\* C5. With at least one successful test, overall_robustness_score is
\* exactly 1.0 - average_risk_drift.
C5_OverallIsComplementOfDrift ==
    (pc = "done" /\ returned.summary.successful_tests >= 1) =>
        returned.summary.overall_robustness_score =
            FSub(FOne, returned.summary.average_risk_drift)

\* a finished run with a successful test and a drift that is neither 0 nor 1/2
C5_Witness ==
    /\ pc = "done"
    /\ returned.summary.successful_tests >= 1
    /\ ~FIsZero(returned.summary.average_risk_drift)
    /\ returned.summary.average_risk_drift # FDyadic(1, 1)

\* the entries the loop has gone past that have text
Processed == {i \in 1..Len(clauses) : i < idx /\ ~Skipped(i)}

\* C6. An entry whose text is empty or missing is skipped: no call of the
\* classifier or of the generators is made for it, no report is appended
\* for it, it counts neither as a success nor as a failure, and the entries
\* after it are still processed.
C6_EmptyEntriesSkipped ==
    pc \in {"loop", "done"} =>
        /\ \A k \in 1..Len(calls) : ~Skipped(calls[k].entry)
        /\ Len(results) = Cardinality(Processed)
        /\ \A j \in Processed : Classifies(j)
        /\ pc = "done" =>
              /\ Processed = {i \in 1..Len(clauses) : ~Skipped(i)}
              /\ Len(returned.detailed_results) = Cardinality(Processed)
              /\ returned.summary.successful_tests =
                     Cardinality(Processed \ FailedEntries)
              /\ Cardinality({k \in 1..Len(returned.detailed_results) :
                     "error" \in DOMAIN returned.detailed_results[k].original})
                   = Cardinality(FailedEntries)

\* a finished run over an entry without text followed by an entry with text
C6_Witness ==
    /\ pc = "done"
    /\ \E i \in 1..Len(clauses) :
          /\ Skipped(i)
          /\ \E j \in (i + 1)..Len(clauses) : ~Skipped(j) /\ Classifies(j)

\* C7, as stated: for every batch and every index i, detailed_results[i] is
\* the report of the i-th input entry.
C7_IndexAligned ==
    pc = "done" =>
        \A i \in 1..Len(clauses) :
            /\ i <= Len(returned.detailed_results)
            /\ returned.detailed_results[i].original.text = ClauseText(i)
            /\ returned.detailed_results[i].metadata = ClauseMetadata(i)

\* C7, amended: detailed_results holds the reports of the entries with
\* text, in input order: its k-th report is the report of the k-th entry
\* that has text.  It is index-aligned with the batch when no entry is
\* skipped.
C7_ReportsInInputOrder ==
    pc = "done" =>
        /\ Len(returned.detailed_results) = Len(TextedEntries)
        /\ \A k \in 1..Len(TextedEntries) :
              /\ returned.detailed_results[k].original.text =
                     ClauseText(TextedEntries[k])
              /\ returned.detailed_results[k].metadata =
                     ClauseMetadata(TextedEntries[k])

\* a finished run in which the only report is the report of the second entry
C7_Witness ==
    /\ pc = "done"
    /\ Len(clauses) = 2
    /\ TextedEntries = <<2>>
    /\ Len(returned.detailed_results) = 1
    /\ returned.detailed_results[1].original.text = ClauseText(2)


\* C27. The summary formula overall_robustness_score =
\* 1.0 - average_risk_drift also holds when the batch yields no report at
\* all (empty batch, or every entry skipped for empty text):
\* average_risk_drift is 0.0 and overall_robustness_score is 1.0.
C27_NoReportScoresOne ==
    (pc = "done" /\ returned.detailed_results = <<>>) =>
        /\ returned.summary.average_risk_drift = FZero
        /\ returned.summary.overall_robustness_score = FOne
        /\ returned.summary.overall_robustness_score =
               FSub(FOne, returned.summary.average_risk_drift)

\* C29. After run_robustness_suite on any batch, the number of reports in
\* detailed_results equals the number of input entries with non-empty text
\* (exactly one report, normal or degraded, per such entry), and
\* successful_tests <= len(detailed_results) <= total_clauses.
C29_OneReportPerTextedEntry ==
    pc = "done" =>
        LET texted == {i \in 1..Len(clauses) : DictGet(clauses[i], "text", <<>>) # <<>>}
            reports == returned.detailed_results
        IN  /\ Len(reports) = Cardinality(texted)
            /\ \A k \in 1..Len(reports) :
                   reports[k].original.text = ClauseText(TextedEntries[k])
            /\ returned.summary.successful_tests <= Len(reports)
            /\ Len(reports) <= returned.summary.total_clauses

\* a finished run over an entry without text and an entry whose
\* classification failed
C29_Witness ==
    /\ pc = "done"
    /\ returned.summary.total_clauses = 2
    /\ Len(returned.detailed_results) = 1
    /\ returned.summary.successful_tests = 0

(***************************************************************************)
(* OrderSpec: runs of run_robustness_suite over batches in which a clause  *)
(* follows a clause that draws from the random generator                   *)
(***************************************************************************)
CollectClause == [text |-> CollectText]
OrderEntries == {CollectClause, ShareClause, EmptyClause}

OrderInit ==
    /\ pc = "start"
    /\ rng = Unseeded
    /\ classifier \in {Steady, Drifting}
    /\ clauses \in SeqsUpTo(OrderEntries, MaxBatch)
    /\ idx = 0
    /\ results = <<>>
    /\ calls = <<>>
    /\ returned = NoResult
    /\ IdleGen
    /\ IdleMetrics

OrderSpec == OrderInit /\ [][Next]_vars

\* the reports a run over the batch of the entry i alone may hold for it,
\* one for every set of generators that may fail
AloneReports(i) ==
    {LET r == TestClauseRobustness(ClauseText(i), ClauseMetadata(i),
                                   RandomSeed(DefaultSeed), classifier, fails)
     IN  IF r.raised
         THEN DegradedReport(ClauseText(i), r.error, ClauseMetadata(i))
         ELSE r.report : fails \in GenFailSets}

\* C11. No shared mutable state across clauses: the report of a clause
\* depends only on its text, its metadata and the classifier, so it is a
\* report the clause gets in a run over a batch that holds it alone,
\* whatever clauses precede it in the batch.
C11_ReportIndependentOfBatch ==
    pc = "done" =>
        \A k \in 1..Len(TextedEntries) :
            returned.detailed_results[k] \in AloneReports(TextedEntries[k])

(***************************************************************************)
(* RepeatSpec: run_robustness_suite is called again on the same batch, in  *)
(* the same process; the value each finished run returned is kept in       *)
(* genLog                                                                  *)
(***************************************************************************)
MaxRuns == 2

RepeatInit ==
    /\ pc = "start"
    /\ rng = Unseeded
    /\ classifier \in {Drifting, FailsOnKept}
    /\ clauses \in SeqsUpTo(OrderEntries \cup {KeptClause}, MaxBatch)
    /\ idx = 0
    /\ results = <<>>
    /\ calls = <<>>
    /\ returned = NoResult
    /\ IdleGen
    /\ IdleMetrics

\* one iteration of the loop on an entry whose text is a string: no
\* generator raises
TestStringClause ==
    /\ pc = "loop"
    /\ idx <= Len(clauses)
    /\ ClauseText(idx) # <<>>
    /\ \E r \in {TestClauseRobustness(ClauseText(idx), ClauseMetadata(idx),
                                      rng, classifier, {})} :
         /\ rng' = r.rng
         /\ calls' = calls \o Tagged(r.calls, idx)
         /\ results' =
               IF SuiteHandles(r) = "append" THEN AppendReport(results, r.report)
               ELSE AppendReport(results,
                        DegradedReport(ClauseText(idx), r.error, ClauseMetadata(idx)))
         /\ idx' = idx + 1
    /\ UNCHANGED <<pc, classifier, clauses, returned, genVars, metricsVars>>

\* the caller keeps the returned value and calls run_robustness_suite again
\* with the same batch
RunAgain ==
    /\ pc = "done"
    /\ Len(genLog) < MaxRuns - 1
    /\ genLog' = Append(genLog, returned)
    /\ pc' = "start"
    /\ idx' = 0
    /\ results' = <<>>
    /\ calls' = <<>>
    /\ returned' = NoResult
    /\ UNCHANGED <<rng, classifier, clauses, testers, metricsVars>>

RepeatNext == Construct \/ SkipEmpty \/ TestStringClause \/ Summarize \/ RunAgain

RepeatSpec == RepeatInit /\ [][RepeatNext]_vars

\* C28. Two runs of run_robustness_suite on the same batch with a
\* classifier that answers the same for the same text return identical
\* summary and detailed_results: each run constructs a tester that seeds
\* the random generator with the default seed before any clause is
\* processed.
C28_RunsAgree ==
    pc = "done" =>
        \A k \in 1..Len(genLog) :
            /\ genLog[k].summary = returned.summary
            /\ genLog[k].detailed_results = returned.detailed_results

\* a second run has finished, over a batch whose variants took random draws
C28_Witness ==
    /\ pc = "done"
    /\ genLog # <<>>
    /\ rng.pos > 0
    /\ \E k \in 1..Len(returned.detailed_results) :
           returned.detailed_results[k].variants # <<>>

(***************************************************************************)
(* TesterSpec: test_clause_robustness is called once on a tester           *)
(* constructed with the default seed                                       *)
(***************************************************************************)
TesterClauses ==
    { ShareClause, KeptClause, CollectClause,
      [text |-> <<"W","e"," ","s","h","a","r","e"," ","p","a","r","a","p","h","r","a","s","e","d"," ","d","a","t","a",".">>],
      [text |-> <<"W","e"," ","u","s","e"," ","c","e","r","t","a","i","n"," ","d","a","t","a",".">>] }
TesterFailSets == SUBSET (1..NumGenerators)

TesterInit ==
    /\ pc = "tester"
    /\ rng = RandomSeed(DefaultSeed)
    /\ classifier \in Classifiers \cup {FailsOnNegated}
    /\ \E c \in TesterClauses : clauses = <<c>>
    /\ idx = 1
    /\ results = <<>>
    /\ calls = <<>>
    /\ returned = NoResult
    /\ IdleGen
    /\ IdleMetrics

\* tester.test_clause_robustness(clause, metadata), the generators in fails
\* raising
CallTestClause ==
    /\ pc = "tester"
    /\ \E fails \in TesterFailSets :
       \E r \in {TestClauseRobustness(ClauseText(1), ClauseMetadata(1), rng,
                                      classifier, fails)} :
         /\ rng' = r.rng
         /\ calls' = r.calls
         /\ results' = IF r.raised THEN <<>> ELSE <<r.report>>
         /\ pc' = IF r.raised THEN "raised" ELSE "returned"
    /\ UNCHANGED <<classifier, clauses, idx, returned, genVars, metricsVars>>

TesterNext == CallTestClause

TesterSpec == TesterInit /\ [][TesterNext]_vars

\* the texts of the variants the call generated, in the order they were
\* classified
GeneratedTexts == [k \in 1..(Len(calls) - 2) |-> calls[k + 2].text]

Accepted(text) == Answer(classifier, text).ok

\* the results of the variants whose classification did not raise
RECURSIVE AcceptedResults(_)
AcceptedResults(texts) ==
    IF texts = <<>> THEN <<>>
    ELSE (IF Accepted(Head(texts))
          THEN <<WithText(Answer(classifier, Head(texts)).result, Head(texts))>>
          ELSE <<>>) \o AcceptedResults(Tail(texts))

ZeroVariantMetrics ==
    [risk_drift_score |-> FZero, label_stability_score |-> FOne,
     confidence_stability |-> FOne, probability_similarity |-> FOne]

\* C14. A variant whose classification raises is excluded from the metrics
\* input and from the variants of the report, and the remaining variants
\* are still classified; when every variant's classification raises, or no
\* variant is generated, test_clause_robustness still returns a normal
\* report, with the metrics at the zero-variant defaults (0.0, 1.0, 1.0,
\* 1.0) and an empty variants list.
C14_FailedVariantsExcluded ==
    (pc \in {"returned", "raised"} /\ Accepted(ClauseText(1))) =>
        LET kept == AcceptedResults(GeneratedTexts)
            original == WithText(Answer(classifier, ClauseText(1)).result, ClauseText(1))
            metrics == CalculateRobustnessMetrics(original, kept)
        IN  /\ pc = "returned"
            /\ Len(results) = 1
            /\ [k \in 1..Len(results[1].variants) |-> results[1].variants[k].text]
                  = [k \in 1..Len(kept) |-> kept[k].text]
            /\ results[1].variants = metrics.variant_results
            /\ \A key \in DOMAIN ZeroVariantMetrics :
                   results[1].robustness_metrics[key] = metrics[key]
            /\ kept = <<>> =>
                 /\ results[1].robustness_metrics = ZeroVariantMetrics
                 /\ results[1].variants = <<>>

\* variants were generated and the classification of every one of them
\* raised
C14_Witness ==
    /\ pc = "returned"
    /\ GeneratedTexts # <<>>
    /\ \A k \in 1..Len(GeneratedTexts) : ~Accepted(GeneratedTexts[k])
    /\ results[1].variants = <<>>

\* C15. The original clause is classified before any variant is generated
\* or classified; if that classification raises, the error propagates out
\* of test_clause_robustness, no report is returned and no variant is
\* generated or classified for the clause.
C15_OriginalClassifiedFirst ==
    pc \in {"returned", "raised"} =>
        /\ calls # <<>>
        /\ calls[1] = [op |-> "classify", text |-> ClauseText(1)]
        /\ \A k \in 2..Len(calls) :
               calls[k].op = (IF k = 2 THEN "generate_variants" ELSE "classify")
        /\ ~Accepted(ClauseText(1)) =>
               /\ pc = "raised"
               /\ results = <<>>
               /\ Len(calls) = 1
               /\ rng = RandomSeed(DefaultSeed)
        /\ Accepted(ClauseText(1)) => (pc = "returned" /\ Len(calls) >= 2)

\* the classification of the original clause raised
C15_Witness ==
    /\ pc = "raised"
    /\ ~Accepted(ClauseText(1))

\* the text holds the word, in any case
Mentions(text, word) ==
    \E i \in 1..(Len(text) - Len(word) + 1) :
        Lower(SubSeq(text, i, i + Len(word) - 1)) = word

VariantTypes == {"paraphrased", "negation_flipped", "ambiguous", "entity_swapped"}

\* C26. The variant_type stored in each per-variant result is inferred from
\* the variant's text alone, by this priority: 'paraphrased' if the
\* lowercased text contains "paraphrased"; else 'negation_flipped' if it
\* contains "not"; else 'ambiguous' if it contains "certain" or
\* "approximately"; else 'entity_swapped'.  It is always one of the four
\* tags and does not depend on the tag the generator gave the variant.
C26_TypeInferredFromText ==
    pc = "returned" =>
        \A k \in 1..Len(results[1].variants) :
            LET text == results[1].variants[k].text
                type == results[1].variants[k].variant_type
            IN  /\ type \in VariantTypes
                /\ type = (IF Mentions(text, <<"p","a","r","a","p","h","r","a","s","e","d">>) THEN "paraphrased"
                           ELSE IF Mentions(text, <<"n","o","t">>) THEN "negation_flipped"
                           ELSE IF Mentions(text, <<"c","e","r","t","a","i","n">>)
                                     \/ Mentions(text, <<"a","p","p","r","o","x","i","m","a","t","e","l","y">>)
                                THEN "ambiguous"
                           ELSE "entity_swapped")

\* all four variants were generated and classified; either the one the
\* paraphrase generator made is not typed 'paraphrased' and the one the
\* entity-swap generator made is typed 'ambiguous', or the one the negation
\* generator made holds "not" and is typed 'paraphrased'
C26_Witness ==
    /\ pc = "returned"
    /\ Len(results[1].variants) = 4
    /\ \/ /\ results[1].variants[1].variant_type # "paraphrased"
          /\ results[1].variants[4].variant_type = "ambiguous"
       \/ /\ Mentions(results[1].variants[2].text, <<"n","o","t">>)
          /\ results[1].variants[2].variant_type = "paraphrased"

\* the texts generate_variants makes for the clause on a freshly seeded
\* tester, for every set of generators that may raise
PossibleGenerations ==
    {LET g == GenerateVariants(ClauseText(1), NumGenerators,
                               RandomSeed(DefaultSeed), fails)
     IN  [k \in 1..Len(g.variants) |-> g.variants[k].text] :
        fails \in TesterFailSets}

\* C30. In every normal per-clause report the 'variants' list has one entry
\* per successfully classified variant, at most 4, in the order the
\* variants were generated (paraphrase, negation, ambiguous, entity-swap,
\* the failed ones left out), and each entry carries the text that was
\* classified for that variant.
C30_VariantsInGenerationOrder ==
    pc = "returned" =>
        /\ Len(results[1].variants) <= 4
        /\ [k \in 1..Len(results[1].variants) |-> results[1].variants[k].text]
              = SelectSeq(GeneratedTexts, Accepted)
        /\ GeneratedTexts \in PossibleGenerations

\* a report with two variants of different texts, a third one having failed
\* to classify
C30_Witness ==
    /\ pc = "returned"
    /\ Len(results[1].variants) >= 2
    /\ results[1].variants[1].text # results[1].variants[2].text
    /\ Len(results[1].variants) < Len(GeneratedTexts)

(***************************************************************************)
(* GenSpec: testers are constructed and generate_variants is called on     *)
(* them; random.seed and random.choice act on the one generator of the     *)
(* random module                                                           *)
(***************************************************************************)
Seeds == {DefaultSeed, OtherSeed}
GenClauses == {CollectText, KeptClause.text}

GenInit ==
    /\ pc = "gen"
    /\ rng = Unseeded
    /\ IdleSuite
    /\ IdleGen
    /\ IdleMetrics

\* AdversarialTester(seed)
NewTester ==
    /\ pc = "gen"
    /\ Len(testers) < MaxTesters
    /\ \E seed \in Seeds :
         /\ testers' = Append(testers, seed)
         /\ rng' = RandomSeed(seed)
    /\ UNCHANGED <<pc, suiteVars, genLog, metricsVars>>

\* the texts and tags of a list of variants
TextsAndTags(variants) ==
    [k \in 1..Len(variants) |->
        [text |-> variants[k].text, variant_type |-> variants[k].variant_type]]

\* testers[t].generate_variants(clause)
CallGenerate ==
    /\ pc = "gen"
    /\ Len(genLog) < MaxGenCalls
    /\ \E t \in 1..Len(testers), clause \in GenClauses :
       \E g \in {GenerateVariants(clause, NumGenerators, rng, {})} :
         /\ genLog' = Append(genLog,
                [tester |-> t, seed |-> testers[t], clause |-> clause,
                 variants |-> TextsAndTags(g.variants)])
         /\ rng' = g.rng
    /\ UNCHANGED <<pc, suiteVars, testers, metricsVars>>

GenNext == NewTester \/ CallGenerate

GenSpec == GenInit /\ [][GenNext]_vars

\* C10. Determinism: for a fixed seed and any clause, any two calls of
\* generate_variants(clause) yield the same sequence of variant texts and
\* tags, on two testers constructed with the same seed or one after the
\* other on the same tester.
C10_SameSeedSameVariants ==
    \A i, j \in 1..Len(genLog) :
        (genLog[i].seed = genLog[j].seed /\ genLog[i].clause = genLog[j].clause)
            => genLog[i].variants = genLog[j].variants

(***************************************************************************)
(* VariantSpec: the generators of one tester, constructed with the         *)
(* default seed, are called on clauses                                     *)
(***************************************************************************)
NegationExample == <<"W","e"," ","w","i","l","l"," ","c","o","l","l","e","c","t"," ","y","o","u","r"," ","d","a","t","a",".">>
NegationClauses ==
    { NegationExample,
      <<"W","e"," ","m","a","y"," ","u","s","e"," ","a","n","d"," ","s","h","a","r","e"," ","d","a","t","a",".">>,
      <<"C","o","l","l","e","c","t",","," ","c","o","l","l","e","c","t"," ","a","n","d"," ","s","t","o","r","e",".">>,
      <<"W","i","l","l","i","n","g"," ","u","s","e","r","s"," ","c","a","n"," ","d","o"," ","i","t",".">>,
      <<"W","e"," ","n","o"," ","l","o","n","g","e","r"," ","s","t","o","r","e"," ","d","a","t","a",".">>,
      <<"W","e"," ","w","i","l","l"," ","n","o","t"," ","u","s","e"," ","d","a","t","a",".">>,
      <<"W","i","l","l","i","a","m","s"," ","s","t","o","r","e","s"," ","u","s","e","f","u","l"," ","d","a","t","a",".">>,
      KeptClause.text }

VariantInit ==
    /\ pc = "variant"
    /\ rng = RandomSeed(DefaultSeed)
    /\ IdleSuite
    /\ testers = <<DefaultSeed>>
    /\ genLog = <<>>
    /\ IdleMetrics

\* tester.generate_negation_variant(clause)
CallNegation ==
    /\ pc = "variant"
    /\ Len(genLog) < MaxGenCalls
    /\ \E clause \in NegationClauses :
       \E g \in {GenerateNegationVariant(clause, rng)} :
         /\ genLog' = Append(genLog,
                [op |-> "negation", clause |-> clause, text |-> g.variant.text,
                 variant_type |-> g.variant.variant_type])
         /\ rng' = g.rng
    /\ UNCHANGED <<pc, suiteVars, testers, metricsVars>>

AmbiguousExample == <<"W","e"," ","r","e","t","a","i","n"," ","d","a","t","a"," ","f","o","r"," ","3","0"," ","d","a","y","s",".">>
PercentageExample == <<"W","e"," ","s","h","a","r","e"," ","5","0","%"," ","o","f"," ","t","h","e"," ","d","a","t","a",".">>
AmbiguousClauses ==
    { AmbiguousExample,
      <<"K","e","p","t"," ","2"," ","w","e","e","k","s"," ","o","r"," ","1"," ","m","o","n","t","h",".">>,
      <<"W","e"," ","i","n","s","t","a","l","l"," ","i","t"," ","i","n"," ","3"," ","D","a","y","s",".">>,
      <<"K","e","e","p"," ","5","%","o","f"," ","i","t"," ","f","o","r"," ","2"," ","w","e","e","k","s",".">>,
      <<"W","e"," ","k","e","e","p"," ","5","%"," ","o","f"," ","i","t"," ","6"," ","m","o","n","t","h","s",".">>,
      PercentageExample,
      <<"A","l","l"," ","d","a","t","a"," ","i","s"," ","k","e","p","t"," ","e","x","a","c","t","l","y"," ","1","0"," ","d","a","y","s",".">>,
      KeptClause.text }

\* tester.generate_ambiguous_variant(clause)
CallAmbiguous ==
    /\ pc = "variant"
    /\ Len(genLog) < MaxGenCalls
    /\ \E clause \in AmbiguousClauses :
       \E g \in {GenerateAmbiguousVariant(clause, rng)} :
         /\ genLog' = Append(genLog,
                [op |-> "ambiguous", clause |-> clause, text |-> g.variant.text])
         /\ rng' = g.rng
    /\ UNCHANGED <<pc, suiteVars, testers, metricsVars>>

NumVariants == (0 - 1)..(NumGenerators + 1)
VariantFailSets == {{}, {2}, {1, 3}, {1, 2, 3, 4}}

\* tester.generate_variants(clause, num_variants), the generators in fails
\* raising
CallVariants ==
    /\ pc = "variant"
    /\ Len(genLog) < MaxGenCalls
    /\ \E n \in NumVariants, fails \in VariantFailSets :
       \E g \in {GenerateVariants(CollectText, n, rng, fails)} :
         /\ genLog' = Append(genLog,
                [op |-> "variants", clause |-> CollectText, num_variants |-> n,
                 fails |-> fails, variants |-> TextsAndTags(g.variants)])
         /\ rng' = g.rng
    /\ UNCHANGED <<pc, suiteVars, testers, metricsVars>>

EntityClauses ==
    { <<"P","o","l","i","c","y"," ","o","f"," ","2","0","2","3",".">>,
      <<"U","p","d","a","t","e","d"," ","i","n"," ","2","0","2","4",".">>,
      <<"G","o","o","g","l","e"," ","k","e","e","p","s"," ","d","a","t","a",".">>,
      <<"F","a","c","e","b","o","o","k"," ","a","n","d"," ","A","p","p","l","e",".">>,
      <<"K","e","p","t"," ","f","o","r"," ","3","0"," ","d","a","y","s",".">>,
      <<"3","0"," ","d","a","y","s"," ","o","r"," ","6","0"," ","d","a","y","s",".">>,
      <<"K","e","p","t"," ","1"," ","y","e","a","r",".">>,
      KeptClause.text }

\* tester.generate_entity_swapped_variant(clause)
CallEntitySwap ==
    /\ pc = "variant"
    /\ Len(genLog) < MaxGenCalls
    /\ \E clause \in EntityClauses :
       \E g \in {GenerateEntitySwappedVariant(clause, rng)} :
         /\ genLog' = Append(genLog,
                [op |-> "entity", clause |-> clause, text |-> g.variant.text])
         /\ rng' = g.rng
    /\ UNCHANGED <<pc, suiteVars, testers, metricsVars>>

VariantNext == CallNegation \/ CallAmbiguous \/ CallVariants \/ CallEntitySwap

VariantSpec == VariantInit /\ [][VariantNext]_vars

\* the maximal runs of word characters and of other characters of a text
RECURSIVE TokensFrom(_, _, _)
TokensFrom(text, i, cur) ==
    IF i > Len(text) THEN (IF cur = <<>> THEN <<>> ELSE <<cur>>)
    ELSE IF cur = <<>> \/ ((text[i] \in WordChars) <=> (cur[1] \in WordChars))
         THEN TokensFrom(text, i + 1, Append(cur, text[i]))
         ELSE <<cur>> \o TokensFrom(text, i + 1, <<text[i]>>)

Tokens(text) == TokensFrom(text, 1, <<>>)

RECURSIVE Flatten(_)
Flatten(tokens) ==
    IF tokens = <<>> THEN <<>> ELSE Head(tokens) \o Flatten(Tail(tokens))

\* the positions of the tokens of a text that are one of the words
WordPositions(text, words) ==
    LET ts == Tokens(text) IN {i \in 1..Len(ts) : Lower(ts[i]) \in words}

\* the first entry of the negation table whose word is a token of the
\* clause, 0 when there is none
FirstTrigger(clause) ==
    LET hits == {k \in 1..Len(NegationWords) :
                    WordPositions(clause, {NegationWords[k].key}) # {}}
    IN  IF hits = {} THEN 0 ELSE CHOOSE k \in hits : \A j \in hits : k <= j

\* the clause with every token that is the word of entry k replaced
NegatedAt(clause, k) ==
    LET ts == Tokens(clause)
    IN  Flatten([i \in 1..Len(ts) |->
                    IF Lower(ts[i]) = NegationWords[k].key
                    THEN NegationWords[k].neg ELSE ts[i]])

Negators == {<<"n","o","t">>, <<"c","a","n","n","o","t">>}

HasNoLonger(clause) ==
    LET ts == Tokens(clause)
    IN  \E i \in 1..(Len(ts) - 2) :
            /\ Lower(ts[i]) = <<"n","o">>
            /\ \A j \in 1..Len(ts[i + 1]) : ts[i + 1][j] \in SpaceChars
            /\ Lower(ts[i + 2]) = <<"l","o","n","g","e","r">>

NegationCalls == {k \in 1..Len(genLog) : genLog[k].op = "negation"}

\* C12. Negation single-injection: generate_negation_variant applies at
\* most one entry of the negation table, the first in table order whose
\* word occurs in the clause as a whole word: the output is the clause
\* with the occurrences of that word negated (one negator added for each
\* of them and none for any other trigger word), unchanged when no trigger
\* word occurs; "We will collect your data." becomes
\* "We will not collect your data.".
C12_SingleNegation ==
    \A c \in NegationCalls :
        LET clause == genLog[c].clause
            out == genLog[c].text
            first == FirstTrigger(clause)
            added == Cardinality(WordPositions(out, Negators))
                        - Cardinality(WordPositions(clause, Negators))
        IN  /\ first = 0 => added = 0
            /\ first # 0 =>
                 /\ added = Cardinality(WordPositions(clause, {NegationWords[first].key}))
                 /\ ~HasNoLonger(clause) => out = NegatedAt(clause, first)
            /\ (first = 0 /\ ~HasNoLonger(clause)) => out = clause
            /\ clause = NegationExample => out = <<"W","e"," ","w","i","l","l"," ","n","o","t"," ","c","o","l","l","e","c","t"," ","y","o","u","r"," ","d","a","t","a",".">>

\* a clause holding two trigger words has been negated
C12_Witness ==
    \E c \in NegationCalls :
        LET first == FirstTrigger(genLog[c].clause)
        IN  /\ first # 0
            /\ \E j \in (first + 1)..Len(NegationWords) :
                   WordPositions(genLog[c].clause, {NegationWords[j].key}) # {}

AllIn(token, chars) ==
    token # <<>> /\ \A j \in 1..Len(token) : token[j] \in chars

\* the vague phrase of a duration unit, empty for any other word
DurationPhrase(word) ==
    CASE word \in {<<"d","a","y">>, <<"d","a","y","s">>} -> <<"a"," ","r","e","a","s","o","n","a","b","l","e"," ","p","e","r","i","o","d">>
      [] word \in {<<"w","e","e","k">>, <<"w","e","e","k","s">>} -> <<"s","o","m","e"," ","t","i","m","e">>
      [] word \in {<<"m","o","n","t","h">>, <<"m","o","n","t","h","s">>} -> <<"a","n"," ","e","x","t","e","n","d","e","d"," ","p","e","r","i","o","d">>
      [] OTHER -> <<>>

\* tokens i, i + 1, i + 2 are a number, white space and a duration unit
IsDurationAt(ts, i) ==
    /\ i + 2 <= Len(ts)
    /\ AllIn(ts[i], DigitChars)
    /\ AllIn(ts[i + 1], SpaceChars)
    /\ DurationPhrase(Lower(ts[i + 2])) # <<>>

\* the tokens with every numeric duration replaced by its vague phrase
RECURSIVE VagueFrom(_, _)
VagueFrom(ts, i) ==
    IF i > Len(ts) THEN <<>>
    ELSE IF IsDurationAt(ts, i)
         THEN DurationPhrase(Lower(ts[i + 2])) \o VagueFrom(ts, i + 3)
         ELSE ts[i] \o VagueFrom(ts, i + 1)

VagueDurations(clause) == VagueFrom(Tokens(clause), 1)

HasDuration(text) ==
    LET ts == Tokens(text) IN \E i \in 1..Len(ts) : IsDurationAt(ts, i)

PrecisionWords == {AmbiguityWords[k].key : k \in 1..Len(AmbiguityWords)}

HasPrecisionWord(clause) == WordPositions(clause, PrecisionWords) # {}

\* a number, a percent sign and a word character with nothing in between
HasGluedPercentage(clause) ==
    LET ts == Tokens(clause)
    IN  \E i \in 1..(Len(ts) - 2) :
            AllIn(ts[i], DigitChars) /\ ts[i + 1] = <<"%">>

AmbiguousCalls == {k \in 1..Len(genLog) : genLog[k].op = "ambiguous"}

\* C13 as stated. generate_ambiguous_variant replaces every numeric
\* duration by its vague phrase and leaves every other token of the clause
\* unchanged when the clause contains no precision word.
C13_OnlyDurationsChange ==
    \A c \in AmbiguousCalls :
        /\ ~HasDuration(genLog[c].text)
        /\ ~HasPrecisionWord(genLog[c].clause)
              => genLog[c].text = VagueDurations(genLog[c].clause)

\* C13, amended. generate_ambiguous_variant replaces every numeric duration
\* "N days" by "a reasonable period", "N weeks" by "some time" and
\* "N months" by "an extended period", and leaves every other token of the
\* clause unchanged when the clause contains neither a precision word nor a
\* percentage "N%" directly followed by a word character (which becomes
\* "a significant percentage"); "We retain data for 30 days." becomes
\* "We retain data for a reasonable period.".
C13_DurationsBecomeVague ==
    \A c \in AmbiguousCalls :
        /\ ~HasDuration(genLog[c].text)
        /\ (~HasPrecisionWord(genLog[c].clause) /\ ~HasGluedPercentage(genLog[c].clause))
              => genLog[c].text = VagueDurations(genLog[c].clause)
        /\ HasGluedPercentage(genLog[c].clause)
              => genLog[c].text # VagueDurations(genLog[c].clause)
        /\ genLog[c].clause = AmbiguousExample
              => genLog[c].text = <<"W","e"," ","r","e","t","a","i","n"," ","d","a","t","a"," ","f","o","r"," ","a"," ","r","e","a","s","o","n","a","b","l","e"," ","p","e","r","i","o","d",".">>

\* a clause with a numeric duration and no precision word has been made
\* ambiguous
C13_Witness ==
    \E c \in AmbiguousCalls :
        /\ HasDuration(genLog[c].clause)
        /\ ~HasPrecisionWord(genLog[c].clause)
        /\ ~HasGluedPercentage(genLog[c].clause)
        /\ genLog[c].text # genLog[c].clause

\* a number directly followed by a percent sign
HasPercentage(text) ==
    LET ts == Tokens(text)
    IN  \E i \in 1..(Len(ts) - 1) :
            AllIn(ts[i], DigitChars) /\ Head(ts[i + 1]) = "%"

\* C21. generate_ambiguous_variant replaces every percentage "N%" in the
\* clause with "a significant percentage": no percentage is left in the
\* output, and "We share 50% of the data." becomes
\* "We share a significant percentage of the data.".
C21_PercentagesBecomeVague ==
    \A c \in AmbiguousCalls :
        /\ ~HasPercentage(genLog[c].text)
        /\ genLog[c].clause = PercentageExample
              => genLog[c].text = <<"W","e"," ","s","h","a","r","e"," ","a"," ","s","i","g","n","i","f","i","c","a","n","t"," ","p","e","r","c","e","n","t","a","g","e"," ","o","f"," ","t","h","e"," ","d","a","t","a",".">>

EntityCalls == {k \in 1..Len(genLog) : genLog[k].op = "entity"}

CompanyNames == {CompanyReplacements[k].key : k \in 1..Len(CompanyReplacements)}

AlternatesOf(name) ==
    LET e == CHOOSE e \in SeqRange(CompanyReplacements) : e.key = name
    IN  SeqRange(e.options)

HasCompany(clause) ==
    \E i \in 1..Len(Tokens(clause)) : Tokens(clause)[i] \in CompanyNames

HasYear(clause) ==
    \E i \in 1..Len(Tokens(clause)) : Tokens(clause)[i] \in {<<"2","0","2","3">>, <<"2","0","2","4">>}

HasTableDuration(clause) ==
    \E k \in 1..Len(DurationSwaps) : Contains(DurationSwaps[k].key, clause)

\* the clause with every token 2023 turned into 2024 and every token 2024
\* into 2025
NextYears(clause) ==
    LET ts == Tokens(clause)
    IN  Flatten([i \in 1..Len(ts) |->
                    IF ts[i] = <<"2","0","2","3">> THEN <<"2","0","2","4">>
                    ELSE IF ts[i] = <<"2","0","2","4">> THEN <<"2","0","2","5">>
                    ELSE ts[i]])

\* C22. generate_entity_swapped_variant maps the year 2023 to 2024 and the
\* year 2024 to 2025: a clause containing the year 2023 yields a variant
\* containing 2024 in its place, and a clause containing 2024 yields 2025
\* in its place.
C22_YearsMoveOneYear ==
    \A c \in EntityCalls :
        (HasYear(genLog[c].clause) /\ ~HasCompany(genLog[c].clause)
            /\ ~HasTableDuration(genLog[c].clause))
            => genLog[c].text = NextYears(genLog[c].clause)

\* the texts obtained from the tokens by putting, in place of every company
\* name, one of the alternates listed for it
RECURSIVE AlternateTexts(_)
AlternateTexts(ts) ==
    IF ts = <<>> THEN {<<>>}
    ELSE {h \o t : h \in (IF Head(ts) \in CompanyNames
                          THEN AlternatesOf(Head(ts)) ELSE {Head(ts)}),
                   t \in AlternateTexts(Tail(ts))}

\* C23. generate_entity_swapped_variant replaces each company name of the
\* table that occurs in the clause by one of the alternates listed for that
\* name: for every random choice, the text put in place of an occurrence of
\* company X is a member of X's alternate list, so the name X never
\* reappears in its own place.
C23_CompanyBecomesAlternate ==
    \A c \in EntityCalls :
        (HasCompany(genLog[c].clause) /\ ~HasYear(genLog[c].clause)
            /\ ~HasTableDuration(genLog[c].clause))
            => genLog[c].text \in AlternateTexts(Tokens(genLog[c].clause))

\* the first entry of the duration table whose text occurs in the clause,
\* 0 when there is none
FirstDuration(clause) ==
    LET hits == {k \in 1..Len(DurationSwaps) : Contains(DurationSwaps[k].key, clause)}
    IN  IF hits = {} THEN 0 ELSE CHOOSE k \in hits : \A j \in hits : k <= j

\* C24. generate_entity_swapped_variant applies at most one entry of the
\* duration table per call, the first in table order whose text occurs in
\* the clause, so substitutions do not cascade: a clause containing
\* "30 days" yields "60 days", never "90 days" or "120 days".
C24_OneDurationSwap ==
    \A c \in EntityCalls :
        LET clause == genLog[c].clause
            out == genLog[c].text
            first == FirstDuration(clause)
        IN  (first # 0 /\ ~HasCompany(clause) /\ ~HasYear(clause)) =>
                /\ out = Replace(clause, DurationSwaps[first].key, DurationSwaps[first].to)
                /\ Contains(<<"3","0"," ","d","a","y","s">>, clause) =>
                     /\ Contains(<<"6","0"," ","d","a","y","s">>, out)
                     /\ ~Contains(<<"9","0"," ","d","a","y","s">>, out)
                     /\ ~Contains(<<"1","2","0"," ","d","a","y","s">>, out)

\* a clause holding "30 days" and "60 days" has been swapped
C24_Witness ==
    \E c \in EntityCalls :
        /\ Contains(<<"3","0"," ","d","a","y","s">>, genLog[c].clause)
        /\ Contains(<<"6","0"," ","d","a","y","s">>, genLog[c].clause)
        /\ genLog[c].text # genLog[c].clause

\* C25. generate_negation_variant returns the clause text unchanged, with
\* tag negation_flipped, whenever the clause contains none of the trigger
\* words (will, may, can, do, does, collect, use, share, store) as a whole
\* word and does not contain "no longer".
C25_UntriggeredClauseUnchanged ==
    \A c \in NegationCalls :
        /\ genLog[c].variant_type = "negation_flipped"
        /\ (WordPositions(genLog[c].clause,
                          {NegationWords[k].key : k \in 1..Len(NegationWords)}) = {}
              /\ ~HasNoLonger(genLog[c].clause))
              => genLog[c].text = genLog[c].clause

\* a clause that holds trigger words only inside longer words has been
\* through generate_negation_variant
C25_Witness ==
    \E c \in NegationCalls :
        /\ FirstTrigger(genLog[c].clause) = 0
        /\ ~HasNoLonger(genLog[c].clause)
        /\ \E k \in 1..Len(NegationWords) :
               Contains(NegationWords[k].key, Lower(genLog[c].clause))

GeneratorTags == <<"paraphrased", "negation_flipped", "ambiguous", "entity_swapped">>

\* the generators generate_variants(clause, n) invokes, in order
Invoked(n) == [i \in 1..(IF n < 0 THEN 0 ELSE IF n < 4 THEN n ELSE 4) |-> i]

\* the tags of the invoked generators that do not raise, in order
RECURSIVE TagsOf(_, _)
TagsOf(gens, fails) ==
    IF gens = <<>> THEN <<>>
    ELSE (IF Head(gens) \in fails THEN <<>> ELSE <<GeneratorTags[Head(gens)]>>)
            \o TagsOf(Tail(gens), fails)

VariantsCalls == {k \in 1..Len(genLog) : genLog[k].op = "variants"}

\* C16. generate_variants(clause, num_variants) returns a list whatever
\* generators raise: it invokes the first min(num_variants, 4) generators in
\* the order paraphrase, negation, ambiguous, entity-swap (none when
\* num_variants <= 0), skips a generator that raises without stopping the
\* later ones, and returns the successful variants in that order, so the
\* tags are a subsequence of the four tags of length at most
\* min(num_variants, 4).
C16_VariantsInFixedOrder ==
    \A c \in VariantsCalls :
        LET e == genLog[c]
            tags == [k \in 1..Len(e.variants) |-> e.variants[k].variant_type]
        IN  /\ tags = TagsOf(Invoked(e.num_variants), e.fails)
            /\ Len(tags) <= Len(Invoked(e.num_variants))
            /\ e.num_variants <= 0 => tags = <<>>
            /\ \A j, k \in 1..Len(tags) :
                   j < k => \E a, b \in 1..4 :
                               a < b /\ GeneratorTags[a] = tags[j] /\ GeneratorTags[b] = tags[k]

\* a call in which a generator raised and a later one still produced its
\* variant
C16_Witness ==
    \E c \in VariantsCalls :
        \E i \in genLog[c].fails :
            /\ i < genLog[c].num_variants
            /\ \E k \in 1..Len(genLog[c].variants) :
                   \E j \in (i + 1)..4 :
                       genLog[c].variants[k].variant_type = GeneratorTags[j]

(***************************************************************************)
(* MetricsSpec: calculate_robustness_metrics on an original result and a   *)
(* list of variant results                                                 *)
(***************************************************************************)
MetricsResults ==
    {WithText(r, ShareClause.text) :
        r \in {ResultA, ResultB, ResultC, ResultD, ResultE, ResultF, ResultG, ResultZ}}

\* the results whose distribution is as long as that of r: np.dot is
\* defined on vectors of equal length
SameShape(r) ==
    {v \in MetricsResults :
        Len(v.probability_distribution) = Len(r.probability_distribution)}

MetricsInit ==
    /\ pc = "metrics"
    /\ rng = Unseeded
    /\ IdleSuite
    /\ IdleGen
    /\ mOriginal \in MetricsResults
    /\ mVariants \in SeqsUpTo(SameShape(mOriginal), MaxVariants)
    /\ mMetrics = EmptyDict

Calculate ==
    /\ pc = "metrics"
    /\ mMetrics' = CalculateRobustnessMetrics(mOriginal, mVariants)
    /\ pc' = "calculated"
    /\ UNCHANGED <<rng, suiteVars, genVars, mOriginal, mVariants>>

MetricsNext == Calculate

MetricsSpec == MetricsInit /\ [][MetricsNext]_vars


\* the distribution has a non-zero probability
NonZeroDistribution(r) ==
    \E i \in 1..Len(r.probability_distribution) :
        ~FIsZero(r.probability_distribution[i])

\* C8. calculate_robustness_metrics(original, []) returns exactly
\* risk_drift_score 0.0, label_stability_score 1.0, confidence_stability
\* 1.0, probability_similarity 1.0 and an empty variant_results list, for
\* every original.
C8_ZeroVariantDefaults ==
    (pc = "calculated" /\ mVariants = <<>>) =>
        mMetrics = [risk_drift_score |-> FFromNat(0),
                    label_stability_score |-> FFromNat(1),
                    confidence_stability |-> FFromNat(1),
                    probability_similarity |-> FFromNat(1),
                    variant_results |-> <<>>]

\* the metrics of an original whose case score is not 0, against no variant
C8_Witness ==
    /\ pc = "calculated"
    /\ mVariants = <<>>
    /\ mOriginal = WithText(ResultB, ShareClause.text)
    /\ mMetrics.variant_results = <<>>

\* C9. Self-comparison is a fixed point: for every result r with a
\* non-zero distribution, calculate_robustness_metrics(r, [r]) has risk
\* drift 0.0, label stability 1.0, confidence stability 1.0 and probability
\* similarity 1.0, per variant and in aggregate.
C9_SelfComparisonFixedPoint ==
    (pc = "calculated" /\ mVariants = <<mOriginal>> /\ NonZeroDistribution(mOriginal)) =>
        /\ mMetrics.risk_drift_score = FFromNat(0)
        /\ mMetrics.label_stability_score = FFromNat(1)
        /\ mMetrics.confidence_stability = FFromNat(1)
        /\ mMetrics.probability_similarity = FFromNat(1)
        /\ Len(mMetrics.variant_results) = 1
        /\ mMetrics.variant_results[1].risk_drift = FFromNat(0)
        /\ mMetrics.variant_results[1].label_stability = FFromNat(1)
        /\ mMetrics.variant_results[1].confidence_stability = FFromNat(1)
        /\ mMetrics.variant_results[1].probability_similarity = FFromNat(1)

\* 0 <= x <= 1
InUnit(x) == FLeq(FZero, x) /\ FLeq(x, FOne)

\* the sum, left to right, and the mean of a non-empty list of floats
RECURSIVE SumOf(_)
SumOf(xs) ==
    IF xs = <<>> THEN FZero
    ELSE FAdd(SumOf(SubSeq(xs, 1, Len(xs) - 1)), xs[Len(xs)])

MeanOf(xs) == FDiv(SumOf(xs), FFromNat(Len(xs)))

Compared == pc = "calculated" /\ mVariants # <<>>

PerVariant(field) ==
    [k \in 1..Len(mVariants) |-> mMetrics.variant_results[k][field]]

\* C17. For every original o and non-empty variant list, each per-variant
\* risk_drift equals |v.case_score - o.case_score| / max(|o.case_score|, 1.0),
\* which is |v.case_score - o.case_score| whenever both scores are in
\* [0,1]; the aggregate risk_drift_score equals min(1.0, mean of the
\* per-variant risk_drift) and lies in [0,1].
C17_RiskDrift ==
    Compared =>
        LET o == mOriginal.case_score
            floor == IF FLess(FOne, FAbs(o)) THEN FAbs(o) ELSE FOne
            mean == MeanOf(PerVariant("risk_drift"))
        IN  /\ Len(mMetrics.variant_results) = Len(mVariants)
            /\ \A k \in 1..Len(mVariants) :
                 LET v == mVariants[k].case_score
                     drift == mMetrics.variant_results[k].risk_drift
                 IN  /\ drift = FDiv(FAbs(FSub(v, o)), floor)
                     /\ (InUnit(o) /\ InUnit(v)) => drift = FAbs(FSub(v, o))
            /\ mMetrics.risk_drift_score = (IF FLess(mean, FOne) THEN mean ELSE FOne)
            /\ InUnit(mMetrics.risk_drift_score)

\* an original whose score is above 1 has been compared with a variant of
\* another score
C17_Witness ==
    /\ Compared
    /\ FLess(FOne, mOriginal.case_score)
    /\ ~FIsZero(mMetrics.risk_drift_score)
    /\ FLess(mMetrics.risk_drift_score, FOne)

\* the probability the variant's distribution assigns to the label, 0.0
\* when the label is not in the label set or its index is beyond the
\* distribution
ProbabilityOfLabel(label, distribution) ==
    LET hits == {i \in 1..Len(Id2LabelValues) : Id2LabelValues[i] = label}
    IN  IF hits = {} THEN FZero
        ELSE LET i == CHOOSE i \in hits : \A j \in hits : i <= j
             IN  IF i \in DOMAIN distribution THEN distribution[i] ELSE FZero

\* C18. The per-variant label_stability is 1.0 when the variant's
\* top1_label equals the original's; otherwise it is the probability the
\* variant's distribution assigns to the original's label, looked up by the
\* label's index in the label set, and 0.0 when the original label is not
\* in the label set or its index is beyond the distribution.  With
\* distributions in [0,1] the aggregate label_stability_score, the mean of
\* these values, lies in [0,1].
C18_LabelStability ==
    Compared =>
        /\ \A k \in 1..Len(mVariants) :
             mMetrics.variant_results[k].label_stability =
                 (IF mVariants[k].top1_label = mOriginal.top1_label THEN FOne
                  ELSE ProbabilityOfLabel(mOriginal.top1_label,
                                          mVariants[k].probability_distribution))
        /\ mMetrics.label_stability_score = MeanOf(PerVariant("label_stability"))
        /\ (\A k \in 1..Len(mVariants) :
              \A i \in DOMAIN mVariants[k].probability_distribution :
                 InUnit(mVariants[k].probability_distribution[i]))
              => InUnit(mMetrics.label_stability_score)

\* a variant of another label whose distribution is too short to hold the
\* original's label
C18_Witness ==
    /\ Compared
    /\ \E k \in 1..Len(mVariants) :
         /\ mVariants[k].top1_label # mOriginal.top1_label
         /\ \E i \in 1..Len(Id2LabelValues) :
              /\ Id2LabelValues[i] = mOriginal.top1_label
              /\ i > Len(mVariants[k].probability_distribution)
         /\ mMetrics.variant_results[k].label_stability = FZero

\* C19. The per-variant confidence_stability equals
\* 1.0 - |v.confidence - o.confidence| and the aggregate
\* confidence_stability is the mean of these values; whenever every
\* confidence is in [0,1], the per-variant values and the aggregate lie in
\* [0,1].
C19_ConfidenceStability ==
    Compared =>
        /\ \A k \in 1..Len(mVariants) :
             mMetrics.variant_results[k].confidence_stability =
                 FSub(FOne, FAbs(FSub(mVariants[k].confidence, mOriginal.confidence)))
        /\ mMetrics.confidence_stability = MeanOf(PerVariant("confidence_stability"))
        /\ (InUnit(mOriginal.confidence)
              /\ \A k \in 1..Len(mVariants) : InUnit(mVariants[k].confidence))
              => /\ \A k \in 1..Len(mVariants) :
                       InUnit(mMetrics.variant_results[k].confidence_stability)
                 /\ InUnit(mMetrics.confidence_stability)

\* confidences in [0,1], the variant less confident than the original
C19_Witness ==
    /\ Compared
    /\ InUnit(mOriginal.confidence)
    /\ \A k \in 1..Len(mVariants) : InUnit(mVariants[k].confidence)
    /\ \E k \in 1..Len(mVariants) :
         /\ FLess(mVariants[k].confidence, mOriginal.confidence)
         /\ FLess(mMetrics.variant_results[k].confidence_stability, FOne)

\* C20. For two non-zero probability vectors of equal length
\* _cosine_similarity returns a value in [0,1] (in [-1,1] for any non-zero
\* vectors); when either vector has zero norm it returns 0.0.
C20_CosineInRange ==
    Compared =>
        \A k \in 1..Len(mVariants) :
            LET similarity == mMetrics.variant_results[k].probability_similarity
            IN  IF NonZeroDistribution(mOriginal) /\ NonZeroDistribution(mVariants[k])
                THEN InUnit(similarity)
                ELSE similarity = FZero


=============================================================================
